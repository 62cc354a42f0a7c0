------------------------- MODULE PendingSubmitsProofs -------------------------
(*****************************************************************************)
(* For any number of cards and handlers, any pruning limit and any faults: a *)
(* card pays for one submission, a card that shows no attempt had none, and  *)
(* the store implements OneShot.  While the store can be read no open        *)
(* attempt is lost, and without faults no submission is untraceable.         *)
(* The argument rests on what the status of a card may be before and after   *)
(* its one claim (StatusFits): pruning, expiry and an unreadable file only   *)
(* lose cards or expire pending ones, and never lead back to pending.        *)
(*                                                                           *)
(* Then the same of what the console keeps of jobs and servers: for any      *)
(* number of threads, listings, projects and reused ids, what is shown of a  *)
(* job with PBS (JobsInv: what may be said of a run when the scheduler is    *)
(* where it is, and that a thread with the lock has read the row there is);  *)
(* and for any names, hosts and edits, the logins that are kept (ServersInv: *)
(* a plan saves a login before, and under another name than, what it gives   *)
(* up).                                                                      *)
(*****************************************************************************)
EXTENDS MCPendingSubmits, SequenceTheorems, TLAPS

Before == {"absent", "pending", "rejected", "expired"}
After == Attempted \cup {"absent"}

StatusFits == \A c \in Cards : cards[c].status \in IF c \in claimed THEN After ELSE Before
MadeOnly == \A c \in Cards : c > made => cards[c].status = "absent" /\ c \notin claimed
Uncalled == \A c \in Cards : calls[c] <= 1 /\ (c \notin claimed => calls[c] = 0)
HoldsCard == \A h \in Handlers : at[h] # "idle" => held[h] \in Cards
Ready == \A h \in Handlers : at[h] = "submit" => held[h] \in claimed /\ calls[held[h]] = 0
Alone == \A h, k \in Handlers : at[h] = "submit" /\ at[k] = "submit" /\ held[h] = held[k]
                                => h = k
IInv == TypeOK /\ StatusFits /\ MadeOnly /\ Uncalled /\ HoldsCard /\ Ready /\ Alone

\* What loading, expiring and pruning may do to a card.
Milder(x, y) == \/ y = x \/ y = NoEntry
                \/ x.status = "pending" /\ y = [x EXCEPT !.status = "expired"]
-----------------------------------------------------------------------------
(* The store's helpers *)

\* Pruning keeps or drops a card, and nothing else.
LEMMA SavedKeeps ==
    ASSUME NEW s \in [Cards -> Entries]
    PROVE  /\ Saved(s) \in [Cards -> Entries]
           /\ \A c \in Cards : Saved(s)[c] \in {s[c], NoEntry}
<1>1. NoEntry \in Entries
  BY DEF NoEntry, Entries
<1> DEFINE D == Dropped(s)
<1>2. Saved(s) = [c \in Cards |-> IF c \in D THEN NoEntry ELSE s[c]]
  BY DEF Saved
<1> HIDE DEF D
<1> QED BY <1>1, <1>2

\* Expiry turns pending cards into expired ones, and may prune.
LEMMA SweptKeeps ==
    ASSUME NEW s \in [Cards -> Entries]
    PROVE  /\ Swept(s) \in [Cards -> Entries]
           /\ \A c \in Cards : Milder(s[c], Swept(s)[c])
<1>1. CASE Lapsed(s) = {}
  BY <1>1 DEF Swept, Milder
<1>2. CASE Lapsed(s) # {}
  <2> DEFINE t == [c \in Cards |-> IF c \in Lapsed(s)
                                   THEN [s[c] EXCEPT !.status = "expired"] ELSE s[c]]
  <2>1. t \in [Cards -> Entries]
    BY DEF Entries, Statuses, Final
  <2>2. \A c \in Cards : c \in Lapsed(s) => s[c].status = "pending"
    BY DEF Lapsed
  <2>3. \A c \in Cards : Milder(s[c], t[c])
    BY <2>2 DEF Milder
  <2>4. Swept(s) = Saved(t)
    BY <1>2 DEF Swept
  <2>5. /\ Saved(t) \in [Cards -> Entries]
        /\ \A c \in Cards : Saved(t)[c] \in {t[c], NoEntry}
    BY <2>1, SavedKeeps
  <2> HIDE DEF t
  <2> QED BY <2>3, <2>4, <2>5 DEF Milder
<1> QED BY <1>1, <1>2

\* A load is the store or the empty store, and expiry after it loses no more.
LEMMA LoadKeeps ==
    ASSUME cards \in [Cards -> Entries], NEW s \in Loads
    PROVE  /\ s \in [Cards -> Entries]
           /\ Swept(s) \in [Cards -> Entries]
           /\ \A c \in Cards : Milder(cards[c], s[c]) /\ Milder(cards[c], Swept(s)[c])
<1>1. NoEntry \in Entries
  BY DEF NoEntry, Entries
<1>2. s = cards \/ s = [c \in Cards |-> NoEntry]
  BY DEF Loads, Unread
<1>3. s \in [Cards -> Entries]
  BY <1>1, <1>2
<1>4. CASE s = cards
  BY <1>4, <1>3, SweptKeeps DEF Milder
<1>5. CASE s = [c \in Cards |-> NoEntry]
  <2>1. Swept(s) \in [Cards -> Entries] /\ \A c \in Cards : Milder(s[c], Swept(s)[c])
    BY <1>3, SweptKeeps
  <2>2. \A c \in Cards : s[c] = NoEntry
    BY <1>5
  <2>3. NoEntry.status # "pending"
    BY DEF NoEntry
  <2> QED BY <1>3, <2>1, <2>2, <2>3 DEF Milder
<1> QED BY <1>2, <1>3, <1>4, <1>5

\* The status a milder card has.
LEMMA MilderStatus ==
    ASSUME NEW x \in Entries, NEW y, Milder(x, y)
    PROVE  /\ y \in Entries
           /\ y.status \in {x.status, "absent", "expired"}
           /\ y.status = "expired" /\ x.status # "expired" => x.status = "pending"
BY DEF Milder, Entries, Statuses, Final, NoEntry
-----------------------------------------------------------------------------
(* Changes of the store that fit *)

\* A store in which every card is as before, milder, or changed by hand.
Fits(t) == /\ t \in [Cards -> Entries]
           /\ \A c \in Cards : Milder(cards[c], t[c])

\* The invariants on cards survive a step that only makes them milder.
LEMMA MilderFits ==
    ASSUME IInv, Fits(cards'), UNCHANGED <<made, claimed>>
    PROVE  StatusFits' /\ MadeOnly' /\ cards' \in [Cards -> Entries]
<1>1. cards \in [Cards -> Entries]
  BY DEF IInv, TypeOK
<1> SUFFICES ASSUME NEW c \in Cards
             PROVE  /\ cards'[c].status \in IF c \in claimed THEN After ELSE Before
                    /\ c > made => cards'[c].status = "absent" /\ c \notin claimed
  BY DEF Fits, StatusFits, MadeOnly
<1>2. /\ cards'[c].status \in {cards[c].status, "absent", "expired"}
      /\ cards'[c].status = "expired" /\ cards[c].status # "expired"
         => cards[c].status = "pending"
  BY <1>1, MilderStatus DEF Fits
<1>3. /\ cards[c].status \in IF c \in claimed THEN After ELSE Before
      /\ c > made => cards[c].status = "absent" /\ c \notin claimed
  BY DEF IInv, StatusFits, MadeOnly
<1> QED BY <1>2, <1>3 DEF Before, After, Attempted

\* Sweeping only makes cards milder.
LEMMA SweepingFits ==
    ASSUME cards \in [Cards -> Entries], NEW s \in Loads, Sweeping(s)
    PROVE  Fits(cards')
<1>1. cards' = Swept(cards) \/ cards' = cards
  BY DEF Sweeping
<1>2. cards \in Loads
  BY DEF Loads
<1> QED BY <1>1, <1>2, LoadKeeps DEF Fits, Milder

\* One card is given a status, the others only become milder.
LEMMA ChangeFits ==
    ASSUME NEW t \in [Cards -> Entries], \A d \in Cards : Milder(cards[d], t[d]),
           NEW c \in Cards, NEW v \in Statuses,
           cards' = Saved([t EXCEPT ![c].status = v]), cards \in [Cards -> Entries]
    PROVE  /\ cards' \in [Cards -> Entries]
           /\ \A d \in Cards \ {c} : Milder(cards[d], cards'[d])
           /\ cards'[c].status \in {v, "absent"}
<1> DEFINE u == [t EXCEPT ![c].status = v]
<1>1. u \in [Cards -> Entries] /\ u[c].status = v /\ \A d \in Cards \ {c} : u[d] = t[d]
  BY DEF Entries
<1>2. Saved(u) \in [Cards -> Entries] /\ \A d \in Cards : Saved(u)[d] \in {u[d], NoEntry}
  BY <1>1, SavedKeeps
<1> HIDE DEF u
<1>3. cards' = Saved(u)
  BY DEF u
<1>4. NoEntry.status = "absent"
  BY DEF NoEntry
<1> QED BY <1>1, <1>2, <1>3, <1>4 DEF Milder

\* A status given to card c fits if it suits whether c has been claimed.
LEMMA StatusGiven ==
    ASSUME IInv, NEW c \in Cards, NEW v \in Statuses,
           cards' \in [Cards -> Entries], c <= made, UNCHANGED made,
           \A d \in Cards \ {c} : Milder(cards[d], cards'[d]),
           cards'[c].status \in {v, "absent"},
           claimed' \in {claimed, claimed \cup {c}},
           v \in IF c \in claimed' THEN Attempted ELSE Before
    PROVE  StatusFits' /\ MadeOnly'
<1>1. cards \in [Cards -> Entries] /\ made \in Nat
  BY DEF IInv, TypeOK
<1> SUFFICES ASSUME NEW d \in Cards
             PROVE  /\ cards'[d].status \in IF d \in claimed' THEN After ELSE Before
                    /\ d > made' => cards'[d].status = "absent" /\ d \notin claimed'
  BY DEF StatusFits, MadeOnly
<1>2. /\ cards[d].status \in IF d \in claimed THEN After ELSE Before
      /\ d > made => cards[d].status = "absent" /\ d \notin claimed
  BY DEF IInv, StatusFits, MadeOnly
<1>3. CASE d = c
  <2>1. ~(c > made)
    BY <1>1 DEF Cards
  <2> QED BY <1>3, <2>1 DEF Before, After
<1>4. CASE d # c
  <2>1. /\ cards'[d].status \in {cards[d].status, "absent", "expired"}
        /\ cards'[d].status = "expired" /\ cards[d].status # "expired"
           => cards[d].status = "pending"
    BY <1>1, <1>4, MilderStatus
  <2>2. d \in claimed' <=> d \in claimed
    BY <1>4
  <2> QED BY <1>2, <2>1, <2>2 DEF Before, After, Attempted
<1> QED BY <1>3, <1>4

\* A card that is stored has been made.
LEMMA StoredMade ==
    ASSUME IInv, NEW c \in Cards, NEW y, Milder(cards[c], y), y.status # "absent"
    PROVE  c <= made /\ (y.status = "pending" => c \notin claimed)
                     /\ (y.status = "submitting" => c \in claimed)
<1>1. made \in Nat /\ c \in Nat /\ cards[c] \in Entries
  BY DEF IInv, TypeOK, Cards
<1>2. /\ c > made => cards[c].status = "absent"
      /\ cards[c].status \in IF c \in claimed THEN After ELSE Before
  BY DEF IInv, MadeOnly, StatusFits
<1>3. y = cards[c] \/ (cards[c].status = "pending" /\ y.status = "expired")
  BY <1>1 DEF Milder, NoEntry, Entries
<1>4. c <= made
  BY <1>1, <1>2, <1>3
<1> QED BY <1>2, <1>3, <1>4 DEF Before, After, Attempted

\* The new card is pending and was never claimed.
LEMMA AddFits ==
    ASSUME IInv, NEW s \in Loads, NEW sha \in Versions \cup {NoSha},
           NEW from \in Cards \cup {NoCard}, Add(s, Entry(sha, from)), UNCHANGED claimed
    PROVE  /\ StatusFits' /\ MadeOnly'
           /\ cards' \in [Cards -> Entries] /\ made' \in 0 .. MaxCards
<1>1. cards \in [Cards -> Entries] /\ made \in 0 .. MaxCards /\ MaxCards \in Nat
  BY CardAssumption DEF IInv, TypeOK
<1>2. made' = made + 1 /\ made + 1 \in Cards /\ made' \in 0 .. MaxCards
  BY <1>1 DEF Add, Cards
<1> DEFINE t == Swept(s)
           u == [t EXCEPT ![made + 1] = Entry(sha, from)]
<1>3. t \in [Cards -> Entries] /\ \A c \in Cards : Milder(cards[c], t[c])
  BY <1>1, LoadKeeps
<1>4. Entry(sha, from) \in Entries /\ Entry(sha, from).status = "pending"
  BY DEF Entry, Entries, Statuses, Final
<1>5. cards' = Saved(u)
  BY DEF Add
<1> HIDE DEF t
<1>6. /\ u \in [Cards -> Entries] /\ u[made + 1].status = "pending"
      /\ \A c \in Cards \ {made + 1} : u[c] = t[c]
  BY <1>2, <1>3, <1>4
<1>7. /\ cards' \in [Cards -> Entries]
      /\ \A c \in Cards : cards'[c] \in {u[c], NoEntry}
  BY <1>5, <1>6, SavedKeeps
<1> HIDE DEF u
<1>8. NoEntry.status = "absent"
  BY DEF NoEntry
<1>9. ASSUME NEW c \in Cards
      PROVE  /\ cards'[c].status \in IF c \in claimed THEN After ELSE Before
             /\ c > made' => cards'[c].status = "absent" /\ c \notin claimed
  <2>1. /\ cards[c].status \in IF c \in claimed THEN After ELSE Before
        /\ c > made => cards[c].status = "absent" /\ c \notin claimed
    BY DEF IInv, StatusFits, MadeOnly
  <2>2. made \in Nat /\ c \in Nat
    BY <1>1 DEF Cards
  <2>3. CASE c = made + 1
    BY <2>1, <2>2, <2>3, <1>2, <1>6, <1>7, <1>8 DEF Before
  <2>4. CASE c # made + 1
    <3>1. cards'[c].status \in {t[c].status, "absent"}
      BY <2>4, <1>6, <1>7, <1>8
    <3>2. /\ t[c].status \in {cards[c].status, "absent", "expired"}
          /\ t[c].status = "expired" /\ cards[c].status # "expired"
             => cards[c].status = "pending"
      BY <1>1, <1>3, MilderStatus
    <3>3. c > made' => c > made
      BY <1>2, <2>2
    <3> QED BY <2>1, <3>1, <3>2, <3>3 DEF Before, After, Attempted
  <2> QED BY <2>3, <2>4
<1> QED BY <1>2, <1>7, <1>9 DEF StatusFits, MadeOnly
-----------------------------------------------------------------------------
(* Where the handlers are *)

LocalType == /\ at \in [Handlers -> Points]
             /\ held \in [Handlers -> Cards \cup {NoCard}]
             /\ read \in [Handlers -> Versions \cup {NoSha}]

\* Handler h moves to a point, and no other handler does.
Moves(h, point) == /\ LocalType'
                   /\ at'[h] = point
                   /\ \A k \in Handlers \ {h} : at'[k] = at[k] /\ held'[k] = held[k]

LEMMA GotoMoves ==
    ASSUME LocalType, NEW h \in Handlers, NEW point \in Points, Goto(h, point)
    PROVE  Moves(h, point) /\ held'[h] = held[h]
BY DEF LocalType, Goto, Moves

LEMMA LeaveMoves ==
    ASSUME LocalType, NEW h \in Handlers, Leave(h)
    PROVE  Moves(h, "idle")
BY DEF LocalType, Leave, Moves, Points

LEMMA HoldsMoves ==
    ASSUME LocalType, NEW h \in Handlers, NEW c \in Cards, NEW point \in Points,
           Holds(h, c, point), cards \in [Cards -> Entries]
    PROVE  Moves(h, point) /\ held'[h] = c
BY DEF LocalType, Holds, Moves, Entries

\* A handler that moves anywhere but to submit leaves the control facts alone.
LEMMA QuietControl ==
    ASSUME IInv, NEW h \in Handlers, NEW point, Moves(h, point), point # "submit",
           point # "idle" => held'[h] \in Cards, UNCHANGED <<claimed, calls>>
    PROVE  HoldsCard' /\ Ready' /\ Alone' /\ Uncalled'
<1>1. \A k \in Handlers : at'[k] = "submit" => at[k] = "submit" /\ held'[k] = held[k]
  BY DEF Moves
<1>2. HoldsCard'
  BY DEF Moves, HoldsCard, IInv
<1>3. Ready'
  BY <1>1 DEF Ready, IInv
<1>4. Alone'
  BY <1>1 DEF Alone, IInv
<1>5. Uncalled'
  BY DEF Uncalled, IInv
<1> QED BY <1>2, <1>3, <1>4, <1>5

\* When no handler moves and no card is claimed or called, either.
LEMMA StillControl ==
    ASSUME IInv, UNCHANGED <<local, claimed, calls>>
    PROVE  HoldsCard' /\ Ready' /\ Alone' /\ Uncalled' /\ LocalType'
BY DEF IInv, TypeOK, LocalType, local, HoldsCard, Ready, Alone, Uncalled

\* Neither moves a step that leaves the store as it is.
LEMMA StillStore ==
    ASSUME IInv, UNCHANGED <<store, claimed>>
    PROVE  StatusFits' /\ MadeOnly' /\ cards' \in [Cards -> Entries] /\ made' \in 0 .. MaxCards
BY DEF IInv, TypeOK, store, StatusFits, MadeOnly

\* The rest of the types.
OtherTypes == /\ faults \in SUBSET {"read", "record"}
              /\ due \in SUBSET Cards
              /\ script \in Versions
              /\ inflight \in SUBSET Cards
              /\ accepted \in SUBSET Cards
              /\ center \in SUBSET Cards
              /\ claimed \in SUBSET Cards
              /\ calls \in [Cards -> Nat]
              /\ ran \in [Cards -> Versions \cup {NoSha}]
StoreType == cards \in [Cards -> Entries] /\ made \in 0 .. MaxCards

LEMMA TypeParts == TypeOK <=> StoreType /\ LocalType /\ OtherTypes
BY DEF TypeOK, StoreType, LocalType, OtherTypes

\* A step of a handler that changes neither claims nor calls and goes
\* anywhere but to submit keeps the invariant if the store fits.
LEMMA QuietStep ==
    ASSUME IInv, NEW h \in Handlers, NEW point, Moves(h, point), point # "submit",
           point # "idle" => held'[h] \in Cards,
           UNCHANGED <<due, remote, claimed, calls>>, center' \in SUBSET Cards,
           StoreType', StatusFits', MadeOnly'
    PROVE  IInv'
<1>1. HoldsCard' /\ Ready' /\ Alone' /\ Uncalled'
  BY QuietControl
<1>2. LocalType'
  BY DEF Moves
<1>3. OtherTypes'
  BY DEF OtherTypes, remote, IInv, TypeOK
<1> QED BY <1>1, <1>2, <1>3, TypeParts DEF IInv, TypeOK, StoreType, LocalType, OtherTypes
-----------------------------------------------------------------------------
(* One lemma per action *)

LEMMA CreateStep == IInv /\ Create => IInv'
<1> SUFFICES ASSUME IInv, Create PROVE IInv'
  OBVIOUS
<1>1. PICK s \in Loads, sha \in {script, NoSha} : Add(s, Entry(sha, NoCard))
  BY DEF Create
<1>2. sha \in Versions \cup {NoSha}
  BY DEF IInv, TypeOK
<1>3. StatusFits' /\ MadeOnly' /\ StoreType'
  BY <1>1, <1>2, AddFits DEF Create, StoreType
<1>4. HoldsCard' /\ Ready' /\ Alone' /\ Uncalled' /\ LocalType'
  BY StillControl DEF Create
<1>5. OtherTypes'
  BY DEF Create, OtherTypes, remote, IInv, TypeOK
<1> QED BY <1>3, <1>4, <1>5 DEF IInv, TypeOK, StoreType, LocalType, OtherTypes

LEMMA ListStep == IInv /\ List => IInv'
<1> SUFFICES ASSUME IInv, List PROVE IInv'
  OBVIOUS
<1>1. cards \in [Cards -> Entries] /\ cards \in Loads
  BY DEF IInv, TypeOK, Loads
<1>2. Fits(cards')
  BY <1>1, LoadKeeps DEF List, Fits
<1>3. StatusFits' /\ MadeOnly' /\ StoreType'
  BY <1>2, MilderFits DEF List, StoreType, IInv, TypeOK
<1>4. HoldsCard' /\ Ready' /\ Alone' /\ Uncalled' /\ LocalType'
  BY StillControl DEF List
<1>5. OtherTypes'
  BY DEF List, OtherTypes, remote, IInv, TypeOK
<1> QED BY <1>3, <1>4, <1>5 DEF IInv, TypeOK, StoreType, LocalType, OtherTypes

\* The two gets load a card and sweep.
LEMMA GetStep ==
    ASSUME IInv, NEW h \in Handlers, NEW c \in Cards, NEW point \in Points \ {"submit"},
           Holds(h, c, point), cards' = Swept(cards),
           UNCHANGED <<made, due, remote, center, claimed, calls>>
    PROVE  IInv'
<1>1. cards \in [Cards -> Entries] /\ cards \in Loads /\ LocalType
  BY DEF IInv, TypeOK, Loads, LocalType
<1>2. Fits(cards')
  BY <1>1, LoadKeeps DEF Fits
<1>3. StatusFits' /\ MadeOnly' /\ StoreType'
  BY <1>2, MilderFits DEF StoreType, IInv, TypeOK
<1>4. Moves(h, point) /\ held'[h] = c
  BY <1>1, HoldsMoves
<1>5. center' \in SUBSET Cards
  BY DEF IInv, TypeOK
<1> QED BY <1>3, <1>4, <1>5, QuietStep

LEMMA ConfirmStep ==
    ASSUME IInv, NEW h \in Handlers, NEW c \in Cards, Confirm(h, c)
    PROVE  IInv'
<1>1. PICK point \in {"reject", "claim", "check"} : Holds(h, c, point)
  BY DEF Confirm
<1>2. point \in Points \ {"submit"}
  BY DEF Points
<1> QED BY <1>1, <1>2, GetStep DEF Confirm

LEMMA AskReissueStep ==
    ASSUME IInv, NEW h \in Handlers, NEW c \in Cards, AskReissue(h, c)
    PROVE  IInv'
<1>1. PICK point \in {"reissue", "recheck"} : Holds(h, c, point)
  BY DEF AskReissue
<1>2. point \in Points \ {"submit"}
  BY DEF Points
<1> QED BY <1>1, <1>2, GetStep DEF AskReissue

\* Giving up, or going on, without a look at the store.
LEMMA MoveStep ==
    ASSUME IInv, NEW h \in Handlers, at[h] # "idle",
           \/ Leave(h)
           \/ \E point \in Points \ {"submit", "idle"} : Goto(h, point),
           UNCHANGED <<store, due, remote, claimed, calls>>, center' \in SUBSET Cards
    PROVE  IInv'
<1>1. LocalType /\ held[h] \in Cards
  BY DEF IInv, TypeOK, LocalType, HoldsCard
<1>2. StatusFits' /\ MadeOnly' /\ StoreType'
  BY StillStore DEF StoreType
<1>3. CASE Leave(h)
  BY <1>1, <1>2, <1>3, LeaveMoves, QuietStep
<1>4. CASE \E point \in Points \ {"submit", "idle"} : Goto(h, point)
  BY <1>1, <1>2, <1>4, GotoMoves, QuietStep
<1> QED BY <1>3, <1>4

LEMMA CheckStep ==
    ASSUME IInv, NEW h \in Handlers, Check(h) \/ Recheck(h) \/ Crash(h) \/ Answer(h)
    PROVE  IInv'
<1>1. center \in SUBSET Cards /\ (at[h] = "await" => held[h] \in Cards)
  BY DEF IInv, TypeOK, HoldsCard
<1>2. CASE Check(h)
  BY <1>1, <1>2, MoveStep DEF Check, Points
<1>3. CASE Recheck(h)
  BY <1>1, <1>3, MoveStep DEF Recheck, Points
<1>4. CASE Crash(h)
  BY <1>1, <1>4, MoveStep DEF Crash
<1>5. CASE Answer(h)
  <2>1. at[h] = "await" /\ UNCHANGED <<store, due, remote, claimed, calls>>
    BY <1>5 DEF Answer
  <2>2. Goto(h, "finish") \/ Goto(h, "failed")
    BY <1>5 DEF Answer
  <2>3. \A s \in Loads : Recorded(s, held[h]) \in SUBSET Cards
    BY <1>1, <2>1 DEF Recorded
  <2>4. center' \in SUBSET Cards
    BY <1>1, <1>5, <2>3 DEF Answer
  <2> QED BY <2>1, <2>2, <2>4, MoveStep DEF Points
<1> QED BY <1>2, <1>3, <1>4, <1>5

\* The store after one card is given a status, in what an operation loaded.
LEMMA SettleFits ==
    ASSUME IInv, NEW c \in Cards, NEW s \in Loads, NEW t \in {s, Swept(s)},
           NEW v \in Statuses, cards' = Saved([t EXCEPT ![c].status = v]),
           t[c].status # "absent", UNCHANGED made,
           claimed' \in {claimed, claimed \cup {c}},
           v \in IF c \in claimed' THEN Attempted ELSE Before
    PROVE  StatusFits' /\ MadeOnly' /\ StoreType'
<1>1. cards \in [Cards -> Entries] /\ made \in 0 .. MaxCards
  BY DEF IInv, TypeOK
<1>2. t \in [Cards -> Entries] /\ \A d \in Cards : Milder(cards[d], t[d])
  BY <1>1, LoadKeeps
<1>3. c <= made
  BY <1>2, StoredMade
<1>4. /\ cards' \in [Cards -> Entries]
      /\ \A d \in Cards \ {c} : Milder(cards[d], cards'[d])
      /\ cards'[c].status \in {v, "absent"}
  BY <1>1, <1>2, ChangeFits
<1>5. StatusFits' /\ MadeOnly'
  BY <1>3, <1>4, StatusGiven
<1> QED BY <1>1, <1>4, <1>5 DEF StoreType

\* The store after an operation that ended in an error.
LEMMA ErrorFits ==
    ASSUME IInv, NEW s \in Loads, Sweeping(s) \/ UNCHANGED cards,
           UNCHANGED <<made, claimed>>
    PROVE  StatusFits' /\ MadeOnly' /\ StoreType'
<1>1. cards \in [Cards -> Entries] /\ made \in 0 .. MaxCards
  BY DEF IInv, TypeOK
<1>2. Fits(cards')
  BY <1>1, SweepingFits DEF Fits, Milder
<1> QED BY <1>1, <1>2, MilderFits DEF StoreType

LEMMA RejectStep ==
    ASSUME IInv, NEW h \in Handlers, Reject(h)
    PROVE  IInv'
<1> DEFINE c == held[h]
<1>1. c \in Cards /\ LocalType /\ cards \in [Cards -> Entries] /\ center \in SUBSET Cards
  BY DEF IInv, HoldsCard, Reject, TypeOK, LocalType
<1>2. PICK s \in Loads :
         IF Swept(s)[c].status = "pending"
         THEN cards' = Saved([Swept(s) EXCEPT ![c].status = "rejected"])
         ELSE Sweeping(s)
  BY DEF Reject
<1>3. UNCHANGED <<made, claimed>>
  BY DEF Reject
<1> HIDE DEF c
<1>4. StatusFits' /\ MadeOnly' /\ StoreType'
  <2>1. CASE Swept(s)[c].status = "pending"
    <3>1. Milder(cards[c], Swept(s)[c])
      BY <1>1, LoadKeeps
    <3>2. c \notin claimed
      BY <1>1, <2>1, <3>1, StoredMade
    <3>3. "rejected" \in Statuses /\ "rejected" \in Before
      BY DEF Statuses, Final, Before
    <3> QED BY <1>1, <1>2, <1>3, <2>1, <3>2, <3>3, SettleFits
  <2>2. CASE Swept(s)[c].status # "pending"
    BY <1>2, <1>3, <2>2, ErrorFits
  <2> QED BY <2>1, <2>2
<1>5. Moves(h, "idle")
  BY <1>1, LeaveMoves DEF Reject
<1> QED BY <1>1, <1>4, <1>5, QuietStep DEF Reject

LEMMA FinishStep ==
    ASSUME IInv, NEW h \in Handlers, NEW point \in {"finish", "failed"},
           NEW v \in Attempted, Finish(h, point, v)
    PROVE  IInv'
<1> DEFINE c == held[h]
<1>1. c \in Cards /\ LocalType /\ cards \in [Cards -> Entries] /\ center \in SUBSET Cards
  BY DEF IInv, HoldsCard, Finish, TypeOK, LocalType
<1>2. PICK s \in Loads :
         IF s[c].status = "submitting"
         THEN cards' = Saved([s EXCEPT ![c].status = v])
         ELSE UNCHANGED cards
  BY DEF Finish
<1>3. UNCHANGED <<made, claimed>>
  BY DEF Finish
<1> HIDE DEF c
<1>4. StatusFits' /\ MadeOnly' /\ StoreType'
  <2>1. CASE s[c].status = "submitting"
    <3>1. Milder(cards[c], s[c])
      BY <1>1, LoadKeeps
    <3>2. c \in claimed
      BY <1>1, <2>1, <3>1, StoredMade
    <3>3. v \in Statuses
      BY DEF Statuses, Final, Attempted
    <3> QED BY <1>1, <1>2, <1>3, <2>1, <3>2, <3>3, SettleFits
  <2>2. CASE s[c].status # "submitting"
    BY <1>2, <1>3, <2>2, ErrorFits
  <2> QED BY <2>1, <2>2
<1>5. Moves(h, "idle")
  BY <1>1, LeaveMoves DEF Finish
<1> QED BY <1>1, <1>4, <1>5, QuietStep DEF Finish

LEMMA ReissueStep ==
    ASSUME IInv, NEW h \in Handlers, Reissue(h)
    PROVE  IInv'
<1> DEFINE c == held[h]
<1>1. c \in Cards /\ LocalType /\ cards \in [Cards -> Entries] /\ center \in SUBSET Cards
  BY DEF IInv, HoldsCard, Reissue, TypeOK, LocalType
<1>2. PICK s \in Loads : IF Swept(s)[c].status = "expired"
                         THEN Add(s, Entry(Swept(s)[c].sha, c))
                         ELSE Sweeping(s) /\ UNCHANGED made
  BY DEF Reissue
<1>3. UNCHANGED claimed
  BY DEF Reissue
<1> HIDE DEF c
<1>4. StatusFits' /\ MadeOnly' /\ StoreType'
  <2>1. CASE Swept(s)[c].status = "expired"
    <3>1. Swept(s)[c].sha \in Versions \cup {NoSha}
      BY <1>1, LoadKeeps DEF Entries
    <3> QED BY <1>1, <1>2, <1>3, <2>1, <3>1, AddFits DEF StoreType
  <2>2. CASE Swept(s)[c].status # "expired"
    BY <1>2, <1>3, <2>2, ErrorFits
  <2> QED BY <2>1, <2>2
<1>5. Moves(h, "idle")
  BY <1>1, LeaveMoves DEF Reissue
<1> QED BY <1>1, <1>4, <1>5, QuietStep DEF Reissue

\* The claimed card was pending, so nobody had claimed or sent it.
LEMMA ClaimStep ==
    ASSUME IInv, NEW h \in Handlers, Claim(h)
    PROVE  IInv'
<1> DEFINE c == held[h]
<1>1. /\ c \in Cards /\ LocalType /\ cards \in [Cards -> Entries]
      /\ center \in SUBSET Cards /\ claimed \in SUBSET Cards
  BY DEF IInv, HoldsCard, Claim, TypeOK, LocalType
<1>2. PICK s \in Loads :
         IF Claimable(Swept(s), c)
         THEN /\ cards' = Saved([Swept(s) EXCEPT ![c].status = "submitting"])
              /\ claimed' = claimed \cup {c}
              /\ Goto(h, "submit")
         ELSE Sweeping(s) /\ Leave(h) /\ UNCHANGED claimed
  BY DEF Claim
<1>3. UNCHANGED <<made, due, remote, center, calls>>
  BY DEF Claim
<1> HIDE DEF c
<1>4. CASE Claimable(Swept(s), c)
  <2>1. Swept(s)[c].status = "pending" /\ Milder(cards[c], Swept(s)[c])
    BY <1>1, <1>4, LoadKeeps DEF Claimable
  <2>2. c \notin claimed
    BY <1>1, <2>1, StoredMade
  <2>3. StatusFits' /\ MadeOnly' /\ StoreType'
    <3>1. "submitting" \in Statuses /\ "submitting" \in Attempted /\ c \in claimed'
      BY <1>2, <1>4 DEF Statuses, Attempted
    <3> QED BY <1>1, <1>2, <1>3, <1>4, <2>1, <3>1, SettleFits
  <2>4. Moves(h, "submit") /\ held'[h] = c
    BY <1>1, <1>2, <1>4, GotoMoves DEF Points, c
  <2>5. calls[c] = 0 /\ \A k \in Handlers : at[k] = "submit" => held[k] # c
    BY <1>1, <2>2 DEF IInv, Uncalled, Ready
  <2>6. HoldsCard'
    BY <1>1, <2>4 DEF Moves, HoldsCard, IInv
  <2>7. Ready'
    BY <1>2, <1>3, <1>4, <2>4, <2>5 DEF Moves, Ready, IInv
  <2>8. Alone'
    BY <2>4, <2>5 DEF Moves, Alone, IInv
  <2>9. Uncalled'
    BY <1>2, <1>3, <1>4 DEF Uncalled, IInv
  <2>10. OtherTypes' /\ LocalType'
    BY <1>1, <1>2, <1>3, <1>4, <2>4 DEF OtherTypes, remote, IInv, TypeOK, Moves
  <2> QED BY <2>3, <2>6, <2>7, <2>8, <2>9, <2>10, TypeParts
          DEF IInv, TypeOK, StoreType, LocalType, OtherTypes
<1>5. CASE ~Claimable(Swept(s), c)
  <2>1. StatusFits' /\ MadeOnly' /\ StoreType'
    BY <1>2, <1>3, <1>5, ErrorFits
  <2>2. Moves(h, "idle")
    BY <1>1, <1>2, <1>5, LeaveMoves
  <2> QED BY <1>1, <1>2, <1>3, <1>5, <2>1, <2>2, QuietStep
<1> QED BY <1>4, <1>5

\* Only the handler that claimed the card is about to send it.
LEMMA SubmitStep ==
    ASSUME IInv, NEW h \in Handlers, Submit(h)
    PROVE  IInv'
<1> DEFINE c == held[h]
<1>1. /\ at[h] = "submit" /\ c \in Cards /\ LocalType
      /\ center \in SUBSET Cards /\ c \in claimed /\ calls[c] = 0
  BY DEF IInv, HoldsCard, Submit, TypeOK, LocalType, Ready
<1>2. UNCHANGED <<store, due, script, accepted, ran, faults, center, claimed>>
  BY DEF Submit
<1>3. StatusFits' /\ MadeOnly' /\ StoreType'
  BY <1>2, StillStore DEF StoreType
<1>4. CASE Goto(h, "failed") /\ UNCHANGED <<calls, inflight>>
  BY <1>1, <1>2, <1>4, MoveStep DEF Points, remote
<1>5. CASE /\ calls' = [calls EXCEPT ![c] = @ + 1]
           /\ inflight' = inflight \cup {c}
           /\ Goto(h, "await")
  <2> HIDE DEF c
  <2>1. Moves(h, "await") /\ held'[h] = c
    BY <1>1, <1>5, GotoMoves DEF Points, c
  <2>2. calls \in [Cards -> Nat] /\ calls' \in [Cards -> Nat] /\ calls'[c] = 1
        /\ \A d \in Cards \ {c} : calls'[d] = calls[d]
    BY <1>1, <1>5 DEF IInv, TypeOK
  <2>3. HoldsCard'
    BY <1>1, <2>1 DEF Moves, HoldsCard, IInv
  <2>4. \A k \in Handlers : at'[k] = "submit" =>
                             at[k] = "submit" /\ held'[k] = held[k] /\ held[k] # c
    BY <1>1, <2>1 DEF Moves, Alone, IInv, c
  <2>5. Ready'
    <3> SUFFICES ASSUME NEW k \in Handlers, at'[k] = "submit"
                 PROVE  held'[k] \in claimed' /\ calls'[held'[k]] = 0
      BY DEF Ready
    <3>1. held[k] \in Cards \ {c} /\ held[k] \in claimed /\ calls[held[k]] = 0
      BY <2>4 DEF Ready, HoldsCard, IInv
    <3> QED BY <1>2, <2>2, <2>4, <3>1
  <2>6. Alone'
    BY <2>4 DEF Alone, IInv
  <2>7. Uncalled'
    BY <1>1, <1>2, <2>2 DEF Uncalled, IInv
  <2>8. OtherTypes' /\ LocalType'
    BY <1>1, <1>2, <1>5, <2>1, <2>2 DEF OtherTypes, IInv, TypeOK, Moves
  <2> QED BY <1>3, <2>3, <2>5, <2>6, <2>7, <2>8, TypeParts
          DEF IInv, TypeOK, StoreType, LocalType, OtherTypes
<1> QED BY <1>4, <1>5 DEF Submit

\* What the scheduler, the clock and a refresh do is none of the store's.
LEMMA OutsideStep ==
    ASSUME IInv, Refresh \/ Edit \/ \E c \in Cards : Accept(c) \/ Refuse(c) \/ Lapse(c)
    PROVE  IInv'
<1>1. UNCHANGED <<store, local, claimed, calls>>
  BY DEF Refresh, Edit, Accept, Refuse, Lapse
<1>2. StatusFits' /\ MadeOnly' /\ StoreType'
  BY <1>1, StillStore DEF StoreType
<1>3. HoldsCard' /\ Ready' /\ Alone' /\ Uncalled' /\ LocalType'
  BY <1>1, StillControl
<1>4. OtherTypes'
  <2>1. CASE Refresh
    BY <2>1 DEF Refresh, OtherTypes, remote, IInv, TypeOK
  <2>2. CASE Edit
    BY <2>2 DEF Edit, OtherTypes, IInv, TypeOK
  <2>3. ASSUME NEW c \in Cards, Accept(c) PROVE OtherTypes'
    BY <2>3 DEF Accept, OtherTypes, IInv, TypeOK
  <2>4. ASSUME NEW c \in Cards, Refuse(c) PROVE OtherTypes'
    BY <2>4 DEF Refuse, OtherTypes, IInv, TypeOK
  <2>5. ASSUME NEW c \in Cards, Lapse(c) PROVE OtherTypes'
    BY <2>5 DEF Lapse, OtherTypes, remote, IInv, TypeOK
  <2> QED BY <2>1, <2>2, <2>3, <2>4, <2>5
<1> QED BY <1>2, <1>3, <1>4 DEF IInv, TypeOK, StoreType, LocalType, OtherTypes
-----------------------------------------------------------------------------
(* The invariant, and what follows from it *)

LEMMA InitIInv == Init => IInv
<1> SUFFICES ASSUME Init PROVE IInv
  OBVIOUS
<1>1. NoEntry \in Entries /\ NoEntry.status = "absent"
  BY DEF NoEntry, Entries
<1>2. cards \in [Cards -> Entries] /\ \A c \in Cards : cards[c].status = "absent"
  BY <1>1 DEF Init
<1>3. StoreType
  BY <1>2, CardAssumption DEF Init, StoreType
<1>4. LocalType /\ OtherTypes
  BY DEF Init, LocalType, OtherTypes, Points
<1>5. StatusFits /\ MadeOnly
  BY <1>2 DEF Init, StatusFits, MadeOnly, Before
<1>6. Uncalled /\ HoldsCard /\ Ready /\ Alone
  BY DEF Init, Uncalled, HoldsCard, Ready, Alone
<1> QED BY <1>3, <1>4, <1>5, <1>6, TypeParts DEF IInv

LEMMA HandlerStep ==
    ASSUME IInv, NEW h \in Handlers, Handler(h)
    PROVE  IInv'
<1>1. CASE \E c \in Cards : Confirm(h, c) \/ AskReissue(h, c)
  BY <1>1, ConfirmStep, AskReissueStep
<1>2. CASE Check(h) \/ Recheck(h) \/ Crash(h) \/ Answer(h)
  BY <1>2, CheckStep
<1>3. CASE FinishAccepted(h) \/ FinishUncertain(h)
  BY <1>3, FinishStep DEF FinishAccepted, FinishUncertain, Attempted
<1>4. CASE Reject(h) \/ Claim(h) \/ Submit(h) \/ Reissue(h)
  BY <1>4, RejectStep, ClaimStep, SubmitStep, ReissueStep
<1> QED BY <1>1, <1>2, <1>3, <1>4 DEF Handler

LEMMA NextKeeps == IInv /\ [Next]_vars => IInv'
<1> SUFFICES ASSUME IInv, [Next]_vars PROVE IInv'
  OBVIOUS
<1>1. CASE Next
  BY <1>1, CreateStep, ListStep, OutsideStep, HandlerStep DEF Next
<1>2. CASE UNCHANGED vars
  BY <1>2 DEF vars, store, local, remote, IInv, TypeOK, StatusFits, MadeOnly, Uncalled,
              HoldsCard, Ready, Alone
<1> QED BY <1>1, <1>2

THEOREM Invariant == Spec => []IInv
BY InitIInv, NextKeeps, PTL DEF Spec

\* Every card, handler and submission has the type the code gives it.
THEOREM TypeCorrect == Spec => []TypeOK
BY Invariant, PTL DEF IInv

\* A card pays for one submission, however often and by however many threads
\* it is confirmed, and whatever dies or cannot be read meanwhile.
THEOREM PaysOnce == Spec => []OneCallPerCard
<1>1. IInv => OneCallPerCard
  BY DEF IInv, Uncalled, OneCallPerCard
<1> QED BY <1>1, Invariant, PTL

\* A card that is pending, rejected or expired never went to the scheduler.
THEOREM HidesNoAttempt == Spec => []NoHiddenAttempt
<1>1. IInv => NoHiddenAttempt
  BY DEF IInv, StatusFits, Uncalled, NoHiddenAttempt, After, Attempted
<1> QED BY <1>1, Invariant, PTL

\* Only Claim claims and only Submit sends.
LEMMA StepRefines == IInv /\ [Next]_vars => [Gate!Next]_(Gate!vars)
<1> DEFINE own == [c \in Cards |-> IF c \in claimed THEN c ELSE NoCard]
           next == Gate!Next \/ UNCHANGED <<claimed, calls>>
<1> SUFFICES ASSUME IInv, [Next]_vars
             PROVE  next
  BY DEF Gate!vars
<1>1. CASE UNCHANGED vars
  BY <1>1 DEF vars
<1>2. CASE \/ Create \/ List \/ Refresh \/ Edit
           \/ \E c \in Cards : Accept(c) \/ Refuse(c) \/ Lapse(c)
  BY <1>2 DEF Create, List, Refresh, Edit, Accept, Refuse, Lapse
<1>3. ASSUME NEW h \in Handlers, Handler(h) PROVE next
  <2>1. CASE \E c \in Cards : Confirm(h, c) \/ AskReissue(h, c)
    BY <2>1 DEF Confirm, AskReissue
  <2>2. CASE Reject(h) \/ Check(h) \/ Recheck(h) \/ Reissue(h) \/ Crash(h) \/ Answer(h)
    BY <2>2 DEF Reject, Check, Recheck, Reissue, Crash, Answer
  <2>3. CASE FinishAccepted(h) \/ FinishUncertain(h)
    BY <2>3 DEF FinishAccepted, FinishUncertain, Finish
  <2>4. CASE Claim(h)
    <3>1. held[h] \in Cards /\ cards \in [Cards -> Entries] /\ UNCHANGED calls
      BY <2>4 DEF IInv, TypeOK, HoldsCard, Claim
    <3>2. PICK c \in Cards : c = held[h]
      BY <3>1
    <3>3. PICK s \in Loads : \/ Claimable(Swept(s), c) /\ claimed' = claimed \cup {c}
                             \/ UNCHANGED claimed
      BY <2>4, <3>2 DEF Claim
    <3>4. CASE Claimable(Swept(s), c) /\ claimed' = claimed \cup {c}
      <4>1. Swept(s)[c].status = "pending" /\ Milder(cards[c], Swept(s)[c])
        BY <3>1, <3>4, LoadKeeps DEF Claimable
      <4>2. c \notin claimed
        BY <4>1, StoredMade
      <4>3. Gate!Claim(c, c)
        BY <3>1, <3>4, <4>2 DEF Gate!Claim, NoCard
      <4> QED BY <4>3 DEF Gate!Next
    <3> QED BY <3>1, <3>3, <3>4
  <2>5. CASE Submit(h)
    <3> DEFINE c == held[h]
    <3>1. c \in Cards /\ c \in claimed /\ calls[c] = 0 /\ calls \in [Cards -> Nat]
      BY <2>5 DEF IInv, TypeOK, HoldsCard, Ready, Submit
    <3>2. UNCHANGED claimed /\ (calls' = [calls EXCEPT ![c] = @ + 1] \/ UNCHANGED calls)
      BY <2>5 DEF Submit
    <3> HIDE DEF c
    <3>3. CASE calls' = [calls EXCEPT ![c] = @ + 1]
      <4>1. calls' = [calls EXCEPT ![c] = 1]
        BY <3>1, <3>3
      <4>2. Gate!Fire(c)
        BY <3>1, <3>2, <4>1 DEF Gate!Fire
      <4> QED BY <3>1, <4>2 DEF Gate!Next
    <3> QED BY <3>2, <3>3
  <2> QED BY <1>3, <2>1, <2>2, <2>3, <2>4, <2>5 DEF Handler
<1> QED BY <1>1, <1>2, <1>3 DEF Next

\* The card store is an implementation of OneShot: a card is claimed once,
\* for good, and only a claimed card is sent, once.
THEOREM ImplementsOneShot == Spec => ClaimedOnce
<1>1. Init => Gate!Init
  BY DEF Init, Gate!Init
<1> QED BY <1>1, StepRefines, Invariant, PTL DEF Spec, ClaimedOnce, Gate!Spec
-----------------------------------------------------------------------------
(* With a store that can be read, attempts stay until they are settled.     *)

\* Pruning drops finalised cards only.
LEMMA SavedOpen ==
    ASSUME NEW s \in [Cards -> Entries], NEW c \in Cards
    PROVE  Saved(s)[c] = s[c] \/ (s[c].status \in Final /\ Saved(s)[c] = NoEntry)
BY DEF Saved, Dropped

\* Expiry touches pending cards only, and prunes.
LEMMA SweptOpen ==
    ASSUME NEW s \in [Cards -> Entries], NEW c \in Cards
    PROVE  \/ Swept(s)[c] = s[c]
           \/ s[c].status = "pending" /\ Swept(s)[c].status \in {"expired", "absent"}
           \/ s[c].status \in Final /\ Swept(s)[c] = NoEntry
<1> DEFINE t == [d \in Cards |-> IF d \in Lapsed(s)
                                 THEN [s[d] EXCEPT !.status = "expired"] ELSE s[d]]
<1>1. t \in [Cards -> Entries]
  BY DEF Entries, Statuses, Final
<1>2. t[c] = s[c] \/ (s[c].status = "pending" /\ t[c].status = "expired")
  BY DEF Lapsed, Entries
<1>3. Swept(s) = s \/ Swept(s) = Saved(t)
  BY DEF Swept
<1> HIDE DEF t
<1>4. Saved(t)[c] = t[c] \/ (t[c].status \in Final /\ Saved(t)[c] = NoEntry)
  BY <1>1, SavedOpen
<1> QED BY <1>2, <1>3, <1>4 DEF NoEntry

\* What one step may do to the status of a card, when the store can be read.
Lost(c) == \/ cards'[c] = cards[c]
           \/ cards[c].status = "pending" /\ cards'[c].status \in {"expired", "absent"}
           \/ cards[c].status \in Final /\ cards'[c] = NoEntry
Given(c) ==
    \/ cards[c].status = "absent" /\ cards'[c].status = "pending"
    \/ cards[c].status = "pending" /\ cards'[c].status \in {"rejected", "absent"}
    \/ /\ cards[c].status = "pending" /\ cards'[c].status = "submitting"
    \/ /\ cards[c].status = "submitting" /\ cards'[c].status = "uncertain"
    \/ /\ cards[c].status = "submitting" /\ cards'[c].status \in {"approved", "absent"}
       /\ \E h \in Handlers : held[h] = c /\ FinishAccepted(h)
Turns == \A c \in Cards : Lost(c) \/ Given(c)

\* Sweeping, or leaving the store as it is, only loses.
LEMMA SweepTurns ==
    ASSUME cards \in [Cards -> Entries], cards' = Swept(cards) \/ UNCHANGED cards
    PROVE  Turns
BY SweptOpen DEF Turns, Lost

\* One card is given a status in the swept store.
LEMMA GivenTurns ==
    ASSUME cards \in [Cards -> Entries], NEW c \in Cards,
           NEW t \in {cards, Swept(cards)}, NEW v \in Statuses,
           cards' = Saved([t EXCEPT ![c].status = v]),
           t[c] = cards[c]
    PROVE  /\ \A d \in Cards \ {c} : Lost(d)
           /\ cards'[c].status = v \/ (v \in Final /\ cards'[c].status = "absent")
<1>1. t \in [Cards -> Entries]
  BY SweptKeeps
<1>2. \A d \in Cards : \/ t[d] = cards[d]
                       \/ cards[d].status = "pending" /\ t[d].status \in {"expired", "absent"}
                       \/ cards[d].status \in Final /\ t[d] = NoEntry
  BY SweptOpen
<1> DEFINE u == [t EXCEPT ![c].status = v]
<1>3. u \in [Cards -> Entries] /\ u[c].status = v /\ \A d \in Cards \ {c} : u[d] = t[d]
  BY <1>1 DEF Entries
<1>4. cards' = Saved(u)
  OBVIOUS
<1> HIDE DEF u
<1>5. \A d \in Cards : cards'[d] = u[d] \/ (u[d].status \in Final /\ cards'[d] = NoEntry)
  BY <1>3, <1>4, SavedOpen
<1>6. NoEntry.status = "absent"
  BY DEF NoEntry
<1> QED BY <1>2, <1>3, <1>5, <1>6 DEF Lost, Final

LEMMA AddTurns ==
    ASSUME IInv, NEW sha \in Versions \cup {NoSha}, NEW from \in Cards \cup {NoCard},
           Add(cards, Entry(sha, from))
    PROVE  Turns
<1>1. /\ cards \in [Cards -> Entries] /\ made \in 0 .. MaxCards /\ MaxCards \in Nat
      /\ \A c \in Cards : c > made => cards[c].status = "absent"
  BY CardAssumption DEF IInv, TypeOK, MadeOnly
<1>2. PICK n \in Cards : n = made + 1
  BY <1>1 DEF Add, Cards
<1>3. cards[n].status = "absent"
  BY <1>1, <1>2
<1> DEFINE t == Swept(cards)
           u == [t EXCEPT ![n] = Entry(sha, from)]
<1>4. t \in [Cards -> Entries]
  BY <1>1, SweptKeeps
<1>5. \A d \in Cards : \/ t[d] = cards[d]
                       \/ cards[d].status = "pending" /\ t[d].status \in {"expired", "absent"}
                       \/ cards[d].status \in Final /\ t[d] = NoEntry
  BY <1>1, SweptOpen
<1>6. Entry(sha, from) \in Entries /\ Entry(sha, from).status = "pending"
  BY DEF Entry, Entries, Statuses, Final
<1>7. cards' = Saved(u)
  BY <1>2 DEF Add
<1> HIDE DEF t
<1>8. u \in [Cards -> Entries] /\ u[n].status = "pending" /\ \A d \in Cards \ {n} : u[d] = t[d]
  BY <1>4, <1>6
<1> HIDE DEF u
<1>9. \A d \in Cards : cards'[d] = u[d] \/ (u[d].status \in Final /\ cards'[d] = NoEntry)
  BY <1>7, <1>8, SavedOpen
<1>10. NoEntry.status = "absent"
  BY DEF NoEntry
<1>11. Given(n)
  BY <1>3, <1>8, <1>9 DEF Given, Final
<1>12. \A d \in Cards \ {n} : Lost(d)
  BY <1>5, <1>8, <1>9, <1>10 DEF Lost, Final
<1> QED BY <1>11, <1>12 DEF Turns

\* A card whose swept status is pending was not touched by the sweep.
LEMMA PendingUnswept ==
    ASSUME cards \in [Cards -> Entries], NEW c \in Cards, Swept(cards)[c].status = "pending"
    PROVE  Swept(cards)[c] = cards[c]
BY SweptOpen DEF NoEntry

LEMMA StepTurns ==
    ASSUME IInv, Loads = {cards}, [Next]_vars
    PROVE  Turns
<1>1. cards \in [Cards -> Entries]
  BY DEF IInv, TypeOK
<1>2. CASE \/ UNCHANGED vars \/ List \/ Refresh \/ Edit
           \/ \E c \in Cards : Accept(c) \/ Refuse(c) \/ Lapse(c)
  BY <1>1, <1>2, SweepTurns DEF vars, List, Refresh, Edit, Accept, Refuse, Lapse, store
<1>3. CASE Create
  <2>1. PICK sha \in {script, NoSha} : Add(cards, Entry(sha, NoCard))
    BY <1>3 DEF Create
  <2>2. sha \in Versions \cup {NoSha}
    BY DEF IInv, TypeOK
  <2> QED BY <2>1, <2>2, AddTurns
<1>4. ASSUME NEW h \in Handlers, Handler(h) PROVE Turns
  <2>1. CASE \E c \in Cards : Confirm(h, c) \/ AskReissue(h, c)
    BY <1>1, <2>1, SweepTurns DEF Confirm, AskReissue
  <2>2. CASE Check(h) \/ Recheck(h) \/ Crash(h) \/ Answer(h) \/ Submit(h)
    BY <1>1, <2>2, SweepTurns DEF Check, Recheck, Crash, Answer, Submit, store
  <2>3. CASE Reject(h)
    <3>1. held[h] \in Cards
      BY <2>3 DEF Reject, IInv, HoldsCard
    <3>2. PICK c \in Cards : c = held[h]
      BY <3>1
    <3>3. CASE Swept(cards)[c].status = "pending"
      <4>1. cards' = Saved([Swept(cards) EXCEPT ![c].status = "rejected"])
        BY <2>3, <3>2, <3>3 DEF Reject
      <4>2. Swept(cards)[c] = cards[c] /\ "rejected" \in Statuses
        BY <1>1, <3>3, PendingUnswept DEF Statuses, Final
      <4>3. /\ \A d \in Cards \ {c} : Lost(d)
            /\ cards'[c].status \in {"rejected", "absent"}
        BY <1>1, <4>1, <4>2, GivenTurns
      <4> QED BY <3>3, <4>2, <4>3 DEF Turns, Given
    <3>4. CASE Swept(cards)[c].status # "pending"
      BY <1>1, <2>3, <3>2, <3>4, SweepTurns DEF Reject, Sweeping
    <3> QED BY <3>3, <3>4
  <2>4. CASE Claim(h)
    <3>1. held[h] \in Cards
      BY <2>4 DEF Claim, IInv, HoldsCard
    <3>2. PICK c \in Cards : c = held[h]
      BY <3>1
    <3>3. CASE Swept(cards)[c].status = "pending"
      <4>1. cards' = Saved([Swept(cards) EXCEPT ![c].status = "submitting"])
        BY <2>4, <3>2, <3>3 DEF Claim, Claimable
      <4>2. Swept(cards)[c] = cards[c] /\ "submitting" \in Statuses
        BY <1>1, <3>3, PendingUnswept DEF Statuses
      <4>3. /\ \A d \in Cards \ {c} : Lost(d)
            /\ cards'[c].status = "submitting"
        BY <1>1, <4>1, <4>2, GivenTurns DEF Final
      <4> QED BY <3>3, <4>2, <4>3 DEF Turns, Given
    <3>4. CASE Swept(cards)[c].status # "pending"
      BY <1>1, <2>4, <3>2, <3>4, SweepTurns DEF Claim, Claimable, Sweeping
    <3> QED BY <3>3, <3>4
  <2>5. ASSUME NEW point \in {"finish", "failed"}, NEW v \in {"approved", "uncertain"},
               Finish(h, point, v), v = "approved" => FinishAccepted(h)
        PROVE  Turns
    <3>1. held[h] \in Cards
      BY <2>5 DEF Finish, IInv, HoldsCard
    <3>2. PICK c \in Cards : c = held[h]
      BY <3>1
    <3>3. CASE cards[c].status = "submitting"
      <4>1. cards' = Saved([cards EXCEPT ![c].status = v]) /\ v \in Statuses
        BY <2>5, <3>2, <3>3 DEF Finish, Statuses, Final
      <4>2. /\ \A d \in Cards \ {c} : Lost(d)
            /\ cards'[c].status = v \/ (v \in Final /\ cards'[c].status = "absent")
        BY <1>1, <4>1, GivenTurns
      <4>3. Given(c)
        BY <2>5, <3>2, <3>3, <4>2 DEF Given, Final
      <4> QED BY <4>2, <4>3 DEF Turns
    <3>4. CASE cards[c].status # "submitting"
      BY <1>1, <2>5, <3>2, <3>4, SweepTurns DEF Finish
    <3> QED BY <3>3, <3>4
  <2>6. CASE FinishAccepted(h) \/ FinishUncertain(h)
    BY <2>5, <2>6 DEF FinishAccepted, FinishUncertain
  <2>7. CASE Reissue(h)
    <3>1. held[h] \in Cards
      BY <2>7 DEF Reissue, IInv, HoldsCard
    <3>2. CASE Swept(cards)[held[h]].status = "expired"
      <4>1. Swept(cards)[held[h]].sha \in Versions \cup {NoSha}
        BY <1>1, <3>1, SweptKeeps DEF Entries
      <4>2. Add(cards, Entry(Swept(cards)[held[h]].sha, held[h]))
        BY <2>7, <3>2 DEF Reissue
      <4> QED BY <3>1, <4>1, <4>2, AddTurns
    <3>3. CASE Swept(cards)[held[h]].status # "expired"
      BY <1>1, <2>7, <3>3, SweepTurns DEF Reissue, Sweeping
    <3> QED BY <3>2, <3>3
  <2> QED BY <1>4, <2>1, <2>2, <2>3, <2>4, <2>6, <2>7 DEF Handler
<1> QED BY <1>2, <1>3, <1>4 DEF Next

\* While the store can be read, an attempt that is not known to have ended is
\* neither dropped nor expired, rejected or reopened.
THEOREM KeepsOpenAttempts == Spec => OpenAttemptsKept
<1> DEFINE Kept == \A c \in Cards : "read" \notin faults => AttemptKept(c)
<1>1. IInv /\ [Next]_vars => [Kept]_vars
  <2> SUFFICES ASSUME IInv, [Next]_vars, NEW c \in Cards, "read" \notin faults
               PROVE  AttemptKept(c)
    OBVIOUS
  <2>1. Loads = {cards}
    BY DEF Loads
  <2>2. Lost(c) \/ Given(c)
    BY <2>1, StepTurns DEF Turns
  <2> QED BY <2>2 DEF Lost, Given, Final, AttemptKept
<1> QED BY <1>1, Invariant, PTL DEF Spec, OpenAttemptsKept
-----------------------------------------------------------------------------
(* Without faults the center knows every approval, so nothing gets lost. *)

Known(c) == c \in center \/ cards[c].status \in Attempted
Traced == /\ \A c \in claimed : Known(c)
          /\ \A c \in Cards : cards[c].status = "approved" => c \in center
          /\ \A h \in Handlers : at[h] = "finish" => held[h] \in center

LEMMA FaultsStay == [Next]_vars => faults' = faults
BY DEF Next, Handler, vars, remote, Create, List, Refresh, Edit, Confirm, AskReissue, Reject,
       Check, Claim, Submit, Answer, FinishAccepted, FinishUncertain, Finish, Recheck, Reissue,
       Crash, Accept, Refuse, Lapse

LEMMA CenterGrows == [Next]_vars => center \subseteq center'
BY DEF Next, Handler, vars, Create, List, Refresh, Edit, Confirm, AskReissue, Reject, Check,
       Claim, Submit, Answer, FinishAccepted, FinishUncertain, Finish, Recheck, Reissue, Crash,
       Accept, Refuse, Lapse

\* Only an answer brings a handler to finish.
LEMMA FinishFollows ==
    ASSUME LocalType, [Next]_vars, NEW h \in Handlers, at'[h] = "finish"
    PROVE  (at[h] = "finish" /\ held'[h] = held[h]) \/ Answer(h)
<1>1. CASE UNCHANGED local
  BY <1>1 DEF local
<1>2. CASE \/ UNCHANGED vars \/ Create \/ List \/ Refresh \/ Edit
           \/ \E c \in Cards : Accept(c) \/ Refuse(c) \/ Lapse(c)
  BY <1>1, <1>2 DEF vars, Create, List, Refresh, Edit, Accept, Refuse, Lapse
<1>3. ASSUME NEW k \in Handlers, Handler(k)
      PROVE  (at[h] = "finish" /\ held'[h] = held[h]) \/ Answer(h)
  <2>1. ASSUME NEW point \in Points \ {"finish"}, Goto(k, point)
        PROVE  at[h] = "finish" /\ held'[h] = held[h]
    BY <2>1 DEF Goto, LocalType
  <2>2. ASSUME Leave(k) PROVE at[h] = "finish" /\ held'[h] = held[h]
    BY <2>2 DEF Leave, LocalType
  <2>3. ASSUME NEW c, NEW point \in Points \ {"finish"}, Holds(k, c, point)
        PROVE  at[h] = "finish" /\ held'[h] = held[h]
    BY <2>3 DEF Holds, LocalType
  <2>4. CASE \E c \in Cards : Confirm(k, c) \/ AskReissue(k, c)
    <3>1. PICK c \in Cards, point \in {"reject", "claim", "check", "reissue", "recheck"} :
                Holds(k, c, point)
      BY <2>4 DEF Confirm, AskReissue
    <3> QED BY <2>3, <3>1 DEF Points
  <2>5. CASE Reject(k) \/ Crash(k) \/ FinishAccepted(k) \/ FinishUncertain(k) \/ Reissue(k)
    BY <2>2, <2>5 DEF Reject, Crash, FinishAccepted, FinishUncertain, Finish, Reissue
  <2>6. CASE Check(k) \/ Recheck(k) \/ Claim(k) \/ Submit(k)
    <3>1. Leave(k) \/ \E point \in {"claim", "reissue", "submit", "await", "failed"} : Goto(k, point)
      BY <2>6 DEF Check, Recheck, Claim, Submit
    <3> QED BY <2>1, <2>2, <3>1 DEF Points
  <2>7. CASE Answer(k)
    <3>1. CASE k = h
      BY <2>7, <3>1
    <3>2. CASE k # h
      BY <2>7, <3>2 DEF Answer, Goto, LocalType
    <3> QED BY <3>1, <3>2
  <2> QED BY <1>3, <2>4, <2>5, <2>6, <2>7 DEF Handler
<1> QED BY <1>2, <1>3 DEF Next

\* Only a claim claims, and the claimed card is being submitted.
LEMMA ClaimMarks ==
    ASSUME IInv, Loads = {cards}, [Next]_vars, NEW c \in claimed' \ claimed
    PROVE  cards'[c].status = "submitting"
<1>1. cards \in [Cards -> Entries]
  BY DEF IInv, TypeOK
<1>2. ~UNCHANGED claimed
  OBVIOUS
<1>3. PICK h \in Handlers : Claim(h)
  BY <1>2 DEF Next, Handler, vars, Create, List, Refresh, Edit, Confirm, AskReissue, Reject,
       Check, Submit, Answer, FinishAccepted, FinishUncertain, Finish, Recheck, Reissue, Crash,
       Accept, Refuse, Lapse
<1>4. c = held[h] /\ held[h] \in Cards
  BY <1>2, <1>3 DEF Claim, IInv, HoldsCard
<1>5. /\ Swept(cards)[c].status = "pending"
      /\ cards' = Saved([Swept(cards) EXCEPT ![c].status = "submitting"])
  BY <1>2, <1>3, <1>4 DEF Claim, Claimable
<1>6. Swept(cards)[c] = cards[c] /\ "submitting" \in Statuses
  BY <1>1, <1>4, <1>5, PendingUnswept DEF Statuses
<1>7. c \in Cards
  BY <1>4
<1> QED BY <1>1, <1>5, <1>6, <1>7, GivenTurns DEF Final

\* Without faults, whatever was sent to the scheduler can be found, in the store
\* or the center.
THEOREM TracesSubmissions == Spec => []SubmissionTraceable
<1> DEFINE Inv == faults = {} => Traced
<1>1. Init => Inv
  <2> SUFFICES ASSUME Init PROVE Traced
    OBVIOUS
  <2>1. NoEntry.status # "approved"
    BY DEF NoEntry
  <2> QED BY <2>1 DEF Init, Traced
<1>2. IInv /\ Inv /\ [Next]_vars => Inv'
  <2> SUFFICES ASSUME IInv, faults = {}, Traced, [Next]_vars PROVE Traced'
    BY FaultsStay
  <2>0. Loads = {cards}
    BY DEF Loads
  <2>1. center \subseteq center' /\ Turns
    BY <2>0, CenterGrows, StepTurns
  <2>2. ASSUME NEW h \in Handlers, at'[h] = "finish" PROVE held'[h] \in center'
    <3>1. CASE at[h] = "finish" /\ held'[h] = held[h]
      BY <2>1, <3>1 DEF Traced
    <3>2. CASE Answer(h)
      BY <2>2, <3>2 DEF Answer, Goto, Recorded, IInv, TypeOK
    <3>3. LocalType
      BY DEF IInv, TypeOK, LocalType
    <3> QED BY <2>2, <3>1, <3>2, <3>3, FinishFollows
  <2>3. ASSUME NEW c \in Cards, \E h \in Handlers : held[h] = c /\ FinishAccepted(h)
        PROVE  c \in center
    BY <2>3 DEF FinishAccepted, Finish, Traced
  <2>4. ASSUME NEW c \in Cards, cards'[c].status = "approved" PROVE c \in center'
    <3>1. cards[c].status = "approved" \/ \E h \in Handlers : held[h] = c /\ FinishAccepted(h)
      BY <2>1, <2>4 DEF Turns, Lost, Given, NoEntry
    <3> QED BY <2>1, <2>3, <3>1 DEF Traced
  <2>5. ASSUME NEW c \in claimed' PROVE Known(c)'
    <3>1. CASE c \notin claimed
      BY <2>0, <3>1, ClaimMarks DEF Known, Attempted
    <3>2. CASE c \in claimed /\ c \in center
      BY <2>1, <3>2 DEF Known
    <3>3. CASE c \in claimed /\ c \notin center
      <4>1. c \in Cards /\ cards[c].status \in {"submitting", "uncertain"}
        BY <3>3 DEF Traced, Known, Attempted, IInv, TypeOK
      <4>2. \/ cards'[c] = cards[c]
            \/ cards'[c].status = "uncertain"
            \/ \E h \in Handlers : held[h] = c /\ FinishAccepted(h)
        BY <2>1, <4>1 DEF Turns, Lost, Given, Final
      <4> QED BY <3>3, <2>3, <4>1, <4>2 DEF Known, Attempted
    <3> QED BY <3>1, <3>2, <3>3
  <2> QED BY <2>2, <2>4, <2>5 DEF Traced
<1>3. IInv /\ Inv => SubmissionTraceable
  BY DEF IInv, Uncalled, Traced, Known, SubmissionTraceable
<1> HIDE DEF Inv
<1> QED BY <1>1, <1>2, <1>3, Invariant, PTL DEF Spec
-----------------------------------------------------------------------------
(* What is shown of a job *)

ThreadTypes == [at : Jobs!Holding \cup {"idle", "known", "locate", "write"},
                for : Projects \cup {NoProject}, row : Jobs!RowSet,
                line : Jobs!Lines, dir : Jobs!Dirs \cup {NoDir}]
ListerTypes == [at : {"idle", "listed", "recent", "both"}, line : Jobs!EntrySet]

\* What may be said of run r when the scheduler is at j: with PBS, an end only of a run
\* that is over, and of the last run the end it had.
Told(j, r, s) ==
    /\ r \in 0 .. j.run
    /\ Scheduler = "pbs" /\ s \in Jobs!Terminal =>
          /\ r # 0
          /\ r < j.run \/ j.phase \in Jobs!Over
          /\ r = j.run /\ j.phase = "completed" => s = "COMPLETED"
          /\ r = j.run /\ j.phase = "failed" => s = "FAILED"
Associated(r) == r.project # NoProject => r.bound = r.dir
RowFits(j, r) == r \in Jobs!RowSet /\ Told(j, r.run, r.state) /\ Associated(r)
LineFits(j, line) == line \in Jobs!Lines /\ Told(j, line.run, line.state)
EntryFits(j, e) == e \in Jobs!EntrySet /\ Told(j, e.run, e.state)

\* A line that was read under the lock does not take back the end the row shows.
KeepsEnd(r, line) ==
    Scheduler = "pbs" /\ r.state \in Jobs!Terminal /\ line.run = r.run => line.state = r.state
\* A thread that holds the lock has read the row w that is there, if one is.
ThreadFits(j, w, x) ==
    /\ x \in ThreadTypes /\ RowFits(j, x.row) /\ LineFits(j, x.line)
    /\ x.at \in Jobs!Holding => w \in {Jobs!NoRow, x.row} /\ KeepsEnd(x.row, x.line)

JobFits(j) == /\ j \in [run : 0 .. MaxRuns, phase : Jobs!Phases]
              /\ j.run = 0 => j.phase = "none"
              /\ Scheduler = "pbs" => j.phase # "configuring"
SubmitterFits(j, s) ==
    /\ s \in [at : {"idle", "record", "seed", "receipt"}, run : 0 .. MaxRuns]
    /\ s.at # "idle" => s.run \in 1 .. j.run
ListerFits(j, l) == l \in ListerTypes /\ EntryFits(j, l.line)
HoldsAlone(t) == \A u \in Threads \ {t} : thread[u].at \notin Jobs!Holding

ThreadsFit == /\ thread \in [Threads -> ThreadTypes]
              /\ \A t \in Threads : /\ ThreadFits(job, row, thread[t])
                                    /\ thread[t].at \in Jobs!Holding => HoldsAlone(t)
ListersFit == /\ lister \in [Listers -> ListerTypes]
              /\ \A l \in Listers : ListerFits(job, lister[l])
JobsInv == /\ JobFits(job) /\ SubmitterFits(job, submitter)
           /\ book \in {"center", "ledger"} /\ stale \in BOOLEAN
           /\ receipts \subseteq 1 .. job.run
           /\ RowFits(job, row) /\ EntryFits(job, entry)
           /\ ThreadsFit /\ ListersFit
-----------------------------------------------------------------------------
LEMMA RecordConstants ==
    /\ Scheduler \in {"pbs", "slurm"} /\ MaxRuns \in Nat /\ DOMAIN DirOf = 1 .. MaxRuns
    /\ \A r \in 1 .. MaxRuns : DirOf[r] \in Jobs!Dirs
BY JobConstants DEF Jobs!RecordsAssumption, Jobs!Dirs

LEMMA NoneTypes ==
    /\ Jobs!NoRow \in Jobs!RowSet /\ Jobs!NoLine \in Jobs!Lines /\ Jobs!NoEntry \in Jobs!EntrySet
    /\ Jobs!NoRow.run = 0 /\ Jobs!NoRow.state = "UNKNOWN" /\ Jobs!NoRow.project = NoProject
    /\ Jobs!NoLine.run = 0 /\ Jobs!NoLine.state = "UNKNOWN"
    /\ Jobs!NoEntry.run = 0 /\ Jobs!NoEntry.state = "UNKNOWN"
    /\ "UNKNOWN" \notin Jobs!Terminal
BY RecordConstants DEF Jobs!NoRow, Jobs!NoLine, Jobs!NoEntry, Jobs!RowSet, Jobs!Lines,
      Jobs!EntrySet, Jobs!States, Jobs!Terminal

\* Nothing is said by what is not there.
LEMMA NoneFits ==
    ASSUME NEW j, JobFits(j)
    PROVE  /\ RowFits(j, Jobs!NoRow) /\ LineFits(j, Jobs!NoLine) /\ EntryFits(j, Jobs!NoEntry)
           /\ \A r \in 0 .. j.run, s \in Jobs!States \ Jobs!Terminal : Told(j, r, s)
<1>1. j.run \in Nat
  BY RecordConstants DEF JobFits
<1>2. \A r \in 0 .. j.run, s \in Jobs!States \ Jobs!Terminal : Told(j, r, s)
  BY DEF Told
<1>3. 0 \in 0 .. j.run /\ "UNKNOWN" \in Jobs!States
  BY <1>1 DEF Jobs!States
<1> QED BY <1>2, <1>3, NoneTypes DEF RowFits, LineFits, EntryFits, Associated

\* A thread that holds nothing fits.
LEMMA IdleFits ==
    ASSUME NEW j, JobFits(j), NEW w
    PROVE  ThreadFits(j, w, Jobs!IdleThread) /\ Jobs!IdleThread.at = "idle"
<1>1. "idle" \notin Jobs!Holding
  BY DEF Jobs!Holding
<1> QED BY <1>1, NoneFits, NoneTypes DEF ThreadFits, Jobs!IdleThread, ThreadTypes

\* An association that is to be made fits as well.
LEMMA AskingFits ==
    ASSUME NEW j, JobFits(j), NEW w, NEW p \in Projects
    PROVE  LET x == [Jobs!IdleThread EXCEPT !.at = "known", !.for = p]
           IN  ThreadFits(j, w, x) /\ x.at = "known"
<1>1. "known" \notin Jobs!Holding
  BY DEF Jobs!Holding
<1>2. ASSUME NEW z, ThreadFits(j, w, z)
      PROVE  LET x == [z EXCEPT !.at = "known", !.for = p]
             IN  ThreadFits(j, w, x) /\ x.at = "known"
  BY <1>1, <1>2 DEF ThreadFits, ThreadTypes
<1> QED BY <1>2, IdleFits

\* What the scheduler says of the job now.
LEMMA LineOfFits ==
    ASSUME JobFits(job), NEW phase \in Jobs!Phases \ {"none", "gone"}, job.phase # "none",
           phase = job.phase \/ phase = "running"
    PROVE  /\ LineFits(job, Jobs!LineOf(phase)) /\ Jobs!LineOf(phase).run = job.run
           /\ Jobs!LineOf(phase).state = Jobs!Normalized(Jobs!Word(phase))
           /\ job.run \in 1 .. MaxRuns
<1>1. job.run \in 1 .. MaxRuns /\ job.run \in Nat /\ DirOf[job.run] \in Jobs!Dirs
  BY RecordConstants DEF JobFits
<1>2. Jobs!Normalized(Jobs!Word(phase)) \in Jobs!States
  BY DEF Jobs!Normalized, Jobs!Word, Jobs!States, Jobs!Terminal, Jobs!Phases
<1>3. Scheduler = "pbs" /\ Jobs!Normalized(Jobs!Word(phase)) \in Jobs!Terminal =>
          \/ phase = "completed" /\ Jobs!Normalized(Jobs!Word(phase)) = "COMPLETED"
          \/ phase = "failed" /\ Jobs!Normalized(Jobs!Word(phase)) = "FAILED"
  BY DEF JobFits, Jobs!Normalized, Jobs!Word, Jobs!Terminal, Jobs!Phases
<1> QED
  <2>1. Told(job, job.run, Jobs!Normalized(Jobs!Word(phase)))
    BY <1>1, <1>3 DEF Told, Jobs!IsOver, Jobs!Over
  <2> QED
    BY <1>1, <1>2, <2>1, RecordConstants DEF LineFits, Jobs!LineOf, Jobs!Lines

\* A job in the queue has not ended, and no row shows that it has.
LEMMA QueueFits ==
    ASSUME JobFits(job), NEW line \in Jobs!Queue
    PROVE  /\ LineFits(job, line)
           /\ \A r : RowFits(job, r) => KeepsEnd(r, line)
<1>1. CASE line = Jobs!NoLine
  <2>1. line.run = 0 /\ LineFits(job, line)
    BY <1>1, NoneFits, NoneTypes
  <2> QED BY <2>1 DEF RowFits, Told, KeepsEnd
<1>2. CASE line # Jobs!NoLine
  <2>1. job.phase \notin Jobs!Over \cup {"none"} /\ line = Jobs!LineOf(job.phase)
    BY <1>2 DEF Jobs!Queue
  <2>2. job.phase \in Jobs!Phases \ {"none", "gone"}
    BY <2>1 DEF JobFits, Jobs!Over
  <2>3. LineFits(job, line) /\ line.run = job.run /\ job.run \in 1 .. MaxRuns
    BY <2>1, <2>2, LineOfFits
  <2> QED BY <2>1, <2>3 DEF RowFits, Told, KeepsEnd
<1> QED BY <1>1, <1>2

\* What PBS still lists has the end that rows show of it.
LEMMA HistoryFits ==
    ASSUME JobFits(job), NEW line \in Jobs!History
    PROVE  /\ LineFits(job, line)
           /\ \A r : RowFits(job, r) => KeepsEnd(r, line)
<1>1. CASE line = Jobs!NoLine
  <2>1. line.run = 0 /\ LineFits(job, line)
    BY <1>1, NoneFits, NoneTypes
  <2> QED BY <2>1 DEF RowFits, Told, KeepsEnd
<1>2. CASE line # Jobs!NoLine /\ Scheduler = "pbs"
  <2> DEFINE now == Jobs!LineOf(job.phase)
  <2>1. /\ job.phase \notin {"none", "gone"}
        /\ line = [now EXCEPT !.dated = TRUE, !.started = Jobs!Started]
    BY <1>2 DEF Jobs!History
  <2>2. job.phase \in Jobs!Phases \ {"none", "gone"}
    BY <2>1 DEF JobFits
  <2>3. /\ LineFits(job, now) /\ now.run = job.run /\ job.run \in 1 .. MaxRuns
        /\ now.state = Jobs!Normalized(Jobs!Word(job.phase))
    BY <2>2, LineOfFits
  <2>4. Jobs!Started \in 0 .. MaxRuns
    BY <2>3, RecordConstants DEF Jobs!Started
  <2>5. line \in Jobs!Lines /\ line.run = now.run /\ line.state = now.state
    BY <2>1, <2>3, <2>4 DEF LineFits, Jobs!Lines
  <2>6. /\ job.phase = "completed" => now.state = "COMPLETED"
        /\ job.phase = "failed" => now.state = "FAILED"
    BY <2>3 DEF Jobs!Normalized, Jobs!Word
  <2>7. ASSUME NEW r, RowFits(job, r), r.state \in Jobs!Terminal, r.run = job.run
        PROVE  now.state = r.state
    <3>1. job.phase \in {"completed", "failed"}
      BY <1>2, <2>1, <2>3, <2>7 DEF RowFits, Told, Jobs!IsOver, Jobs!Over
    <3> QED BY <1>2, <2>6, <2>7, <3>1 DEF RowFits, Told
  <2> QED BY <2>3, <2>5, <2>7 DEF LineFits, KeepsEnd
<1>3. CASE line # Jobs!NoLine /\ Scheduler # "pbs"
  <2>1. PICK phase \in Jobs!Lagging : line = Jobs!LineOf(phase)
    BY <1>3 DEF Jobs!History
  <2>2. job.phase \notin {"none", "gone"}
    BY <1>3 DEF Jobs!History
  <2>3. phase = job.phase \/ phase = "running"
    BY DEF Jobs!Lagging
  <2>4. phase \in Jobs!Phases \ {"none", "gone"}
    BY <2>2, <2>3 DEF JobFits, Jobs!Phases
  <2> QED BY <1>3, <2>1, <2>2, <2>3, <2>4, LineOfFits DEF KeepsEnd
<1> QED BY <1>1, <1>2, <1>3

\* A submission says nothing of an end.
LEMMA SubmittedFits ==
    ASSUME JobFits(job), NEW n \in 1 .. job.run
    PROVE  RowFits(job, Jobs!SubmittedRow(n)) /\ Jobs!SubmittedRow(n).state = "UNKNOWN"
<1>1. n \in 1 .. MaxRuns /\ n \in 0 .. job.run /\ DirOf[n] \in Jobs!Dirs
  BY RecordConstants DEF JobFits
<1>2. /\ Jobs!SubmittedRow(n) \in Jobs!RowSet
      /\ Jobs!SubmittedRow(n).run = n /\ Jobs!SubmittedRow(n).state = "UNKNOWN"
      /\ Jobs!SubmittedRow(n).project = NoProject
  BY <1>1, NoneTypes, RecordConstants DEF Jobs!SubmittedRow, Jobs!RowSet, Jobs!States
<1>3. Told(job, n, "UNKNOWN")
  BY <1>1, NoneFits DEF Jobs!States, Jobs!Terminal
<1> QED BY <1>2, <1>3 DEF RowFits, Associated

\* What the center loads is its row, or a submission a card keeps when there is none.
LEMMA LoadedFits ==
    ASSUME JobsInv, NEW r \in Jobs!Loaded
    PROVE  /\ RowFits(job, r)
           /\ r = row \/ row = Jobs!NoRow
           /\ row \in {Jobs!NoRow, r}
<1>1. CASE r = row
  BY <1>1 DEF JobsInv
<1>2. CASE r # row
  <2>1. row = Jobs!NoRow /\ \E n \in receipts : r = Jobs!SubmittedRow(n)
    BY <1>2 DEF Jobs!Loaded
  <2>2. PICK n \in receipts : r = Jobs!SubmittedRow(n)
    BY <2>1
  <2>3. n \in 1 .. job.run /\ job.run \in 0 .. MaxRuns
    BY DEF JobsInv, JobFits
  <2> QED BY <2>1, <2>2, <2>3, SubmittedFits DEF JobsInv
<1> QED BY <1>1, <1>2

\* Whoever holds the lock, what a thread that does not hold it has read does not matter.
LEMMA FreeFits ==
    ASSUME NEW j, NEW w, NEW x, ThreadFits(j, w, x), x.at \notin Jobs!Holding, NEW v
    PROVE  ThreadFits(j, v, x)
BY DEF ThreadFits

\* One thread takes a step, and may write the row if no other holds the lock.
LEMMA ThreadMoves ==
    ASSUME ThreadsFit, NEW t \in Threads, NEW x, thread' = [thread EXCEPT ![t] = x],
           ThreadFits(job, row', x), job' = job,
           row' = row \/ HoldsAlone(t), x.at \in Jobs!Holding => HoldsAlone(t)
    PROVE  ThreadsFit'
<1>1. x \in ThreadTypes /\ thread' \in [Threads -> ThreadTypes] /\ thread'[t] = x
  BY DEF ThreadFits, ThreadsFit
<1>2. \A u \in Threads \ {t} : thread'[u] = thread[u]
  BY DEF ThreadsFit
<1>3. ASSUME NEW u \in Threads \ {t} PROVE ThreadFits(job, row', thread[u])
  <2>1. ThreadFits(job, row, thread[u])
    BY DEF ThreadsFit
  <2>2. CASE row' = row
    BY <2>1, <2>2
  <2>3. CASE HoldsAlone(t)
    BY <2>1, <2>3, FreeFits DEF HoldsAlone
  <2> QED BY <2>2, <2>3
<1>4. ASSUME NEW u \in Threads, thread'[u].at \in Jobs!Holding,
             NEW v \in Threads \ {u}, thread'[v].at \in Jobs!Holding
      PROVE  FALSE
  <2>1. CASE u = t
    BY <1>1, <1>2, <1>4, <2>1 DEF HoldsAlone
  <2>2. CASE v = t
    BY <1>1, <1>2, <1>4, <2>2 DEF HoldsAlone
  <2>3. CASE u # t /\ v # t
    BY <1>2, <1>4, <2>3 DEF ThreadsFit, HoldsAlone
  <2> QED BY <2>1, <2>2, <2>3
<1>5. \A u \in Threads : ThreadFits(job', row', thread'[u])
  BY <1>1, <1>2, <1>3
<1>6. \A u \in Threads : thread'[u].at \in Jobs!Holding =>
          \A v \in Threads \ {u} : thread'[v].at \notin Jobs!Holding
  BY <1>4
<1> QED BY <1>1, <1>5, <1>6 DEF ThreadsFit, HoldsAlone

\* What no thread of the center changes.
CenterFrame == UNCHANGED <<job, book, receipts, entry, lister, submitter>>

\* A step of a thread of the center that leaves the row as it should be.
LEMMA CenterMoves ==
    ASSUME JobsInv, CenterFrame, NEW t \in Threads, NEW x, thread' = [thread EXCEPT ![t] = x],
           ThreadFits(job, row', x), row' = row \/ HoldsAlone(t),
           x.at \in Jobs!Holding => HoldsAlone(t), RowFits(job, row'), stale' \in BOOLEAN
    PROVE  JobsInv'
<1>1. ThreadsFit'
  BY ThreadMoves DEF JobsInv, CenterFrame
<1>2. ListersFit'
  BY DEF JobsInv, CenterFrame, ListersFit
<1> QED BY <1>1, <1>2 DEF JobsInv, CenterFrame

\* After a refresh nothing is held, and an association may go on.
LEMMA AfterFits ==
    ASSUME JobsInv, NEW t \in Threads, Jobs!AfterRefresh(t)
    PROVE  \E x : /\ thread' = [thread EXCEPT ![t] = x] /\ x.at \notin Jobs!Holding
                  /\ \A w : ThreadFits(job, w, x)
<1>1. JobFits(job) /\ {"idle", "known"} \cap Jobs!Holding = {}
  BY DEF JobsInv, Jobs!Holding
<1>2. CASE thread[t].for = NoProject
  <2>1. thread' = [thread EXCEPT ![t] = Jobs!IdleThread]
    BY <1>2 DEF Jobs!AfterRefresh, Jobs!Leave
  <2> QED BY <1>1, <2>1, IdleFits
<1>3. CASE thread[t].for # NoProject
  <2> DEFINE p == thread[t].for
             x == [Jobs!IdleThread EXCEPT !.at = "known", !.for = p]
  <2>1. thread' = [thread EXCEPT ![t] = x]
    BY <1>3 DEF Jobs!AfterRefresh
  <2>2. p \in Projects
    BY <1>3 DEF JobsInv, ThreadsFit, ThreadTypes
  <2> HIDE DEF p
  <2>3. \A w : ThreadFits(job, w, x) /\ x.at = "known"
    BY <1>1, <2>2, AskingFits
  <2> QED BY <1>1, <2>1, <2>3
<1> QED BY <1>2, <1>3

\* A thread that gives up, or has answered, holds nothing.
LEMMA LetsGo ==
    ASSUME JobsInv, CenterFrame, NEW t \in Threads, Jobs!Leave(t), stale' = stale,
           row' = row \/ HoldsAlone(t), RowFits(job, row')
    PROVE  JobsInv'
<1>1. JobFits(job) /\ "idle" \notin Jobs!Holding /\ stale' \in BOOLEAN
  BY DEF JobsInv, Jobs!Holding
<1>2. ThreadFits(job, row', Jobs!IdleThread) /\ Jobs!IdleThread.at = "idle"
  BY <1>1, IdleFits
<1> QED BY <1>1, <1>2, CenterMoves DEF Jobs!Leave

LEMMA FreeAlone ==
    ASSUME JobsInv, NEW t \in Threads
    PROVE  /\ Jobs!LockFree => HoldsAlone(t)
           /\ thread[t].at \in Jobs!Holding => HoldsAlone(t)
           /\ ThreadFits(job, row, thread[t])
BY DEF JobsInv, ThreadsFit, Jobs!LockFree, HoldsAlone

LEMMA RefreshKeeps ==
    ASSUME JobsInv, NEW t \in Threads, NEW p \in Projects \cup {NoProject}, Jobs!Refresh(t, p)
    PROVE  JobsInv'
<1>1. PICK r \in Jobs!Loaded : thread' = [thread EXCEPT ![t] =
          [Jobs!IdleThread EXCEPT !.at = "queue", !.for = p, !.row = r]]
  BY DEF Jobs!Refresh
<1>2. RowFits(job, r) /\ row \in {Jobs!NoRow, r} /\ JobFits(job)
  BY LoadedFits DEF JobsInv
<1>3. ASSUME NEW z, ThreadFits(job, row, z), z.line = Jobs!NoLine
      PROVE  ThreadFits(job, row, [z EXCEPT !.at = "queue", !.for = p, !.row = r])
  <2> DEFINE x == [z EXCEPT !.at = "queue", !.for = p, !.row = r]
  <2>1. /\ x \in ThreadTypes /\ x.row = r /\ x.line = Jobs!NoLine
    BY <1>2, <1>3 DEF ThreadFits, ThreadTypes, RowFits, Jobs!Holding
  <2>2. KeepsEnd(r, Jobs!NoLine)
    BY <1>2, NoneTypes DEF RowFits, Told, KeepsEnd
  <2>3. LineFits(job, Jobs!NoLine)
    BY <1>3 DEF ThreadFits
  <2> HIDE DEF x
  <2>4. ThreadFits(job, row, x)
    BY <1>2, <2>1, <2>2, <2>3 DEF ThreadFits
  <2> QED BY <2>4 DEF x
<1>4. Jobs!IdleThread.line = Jobs!NoLine
  BY DEF Jobs!IdleThread
<1>5. ThreadFits(job, row, Jobs!IdleThread)
  BY <1>2, IdleFits
<1>6. HoldsAlone(t) /\ CenterFrame /\ row' = row /\ stale' \in BOOLEAN /\ RowFits(job, row)
  BY FreeAlone DEF Jobs!Refresh, CenterFrame, JobsInv
<1> QED BY <1>1, <1>3, <1>4, <1>5, <1>6, CenterMoves

LEMMA AskQueueKeeps ==
    ASSUME JobsInv, NEW t \in Threads, Jobs!AskQueue(t)
    PROVE  JobsInv'
<1>1. /\ HoldsAlone(t) /\ CenterFrame /\ ThreadFits(job, row, thread[t]) /\ JobFits(job)
      /\ RowFits(job, row) /\ stale \in BOOLEAN /\ thread[t].at \in Jobs!Holding
  BY FreeAlone DEF Jobs!AskQueue, CenterFrame, JobsInv, Jobs!Holding
<1>2. CASE \E line \in Jobs!Queue :
              /\ thread' = [thread EXCEPT ![t] = [@ EXCEPT !.at = "history", !.line = line]]
              /\ UNCHANGED <<row, stale>>
  <2>1. PICK line \in Jobs!Queue :
            /\ thread' = [thread EXCEPT ![t] = [thread[t] EXCEPT !.at = "history", !.line = line]]
            /\ row' = row /\ stale' = stale
    BY <1>2
  <2>2. LineFits(job, line) /\ \A r : RowFits(job, r) => KeepsEnd(r, line)
    BY <1>1, QueueFits
  <2>3. ASSUME NEW z, ThreadFits(job, row, z), z.at \in Jobs!Holding
        PROVE  ThreadFits(job, row, [z EXCEPT !.at = "history", !.line = line])
    <3> DEFINE x == [z EXCEPT !.at = "history", !.line = line]
    <3>1. x \in ThreadTypes /\ x.row = z.row /\ x.line = line
      BY <2>2, <2>3 DEF ThreadFits, ThreadTypes, LineFits, Jobs!Holding
    <3> HIDE DEF x
    <3>2. ThreadFits(job, row, x)
      BY <2>2, <2>3, <3>1 DEF ThreadFits
    <3> QED BY <3>2 DEF x
  <2> QED BY <1>1, <2>1, <2>3, CenterMoves
<1>3. CASE row' = thread[t].row /\ stale' = TRUE /\ Jobs!AfterRefresh(t)
  <2>1. PICK x : /\ thread' = [thread EXCEPT ![t] = x] /\ x.at \notin Jobs!Holding
                 /\ \A w : ThreadFits(job, w, x)
    BY <1>3, AfterFits
  <2>2. RowFits(job, row')
    BY <1>1, <1>3 DEF ThreadFits
  <2> QED BY <1>1, <1>3, <2>1, <2>2, CenterMoves
<1> QED BY <1>2, <1>3 DEF Jobs!AskQueue

LEMMA AskHistoryKeeps ==
    ASSUME JobsInv, NEW t \in Threads, Jobs!AskHistory(t)
    PROVE  JobsInv'
<1>1. /\ HoldsAlone(t) /\ CenterFrame /\ ThreadFits(job, row, thread[t]) /\ JobFits(job)
      /\ RowFits(job, row) /\ stale' \in BOOLEAN /\ thread[t].at \in Jobs!Holding
      /\ row' = row
  BY FreeAlone DEF Jobs!AskHistory, CenterFrame, JobsInv, Jobs!Holding
<1>2. PICK past \in Jobs!History \cup {Jobs!NoLine} :
          thread' = [thread EXCEPT ![t] = [thread[t] EXCEPT !.at = "save",
                        !.line = Jobs!Observed(thread[t].line, past)]]
  BY DEF Jobs!AskHistory, JobsInv, ThreadsFit
<1>3. LineFits(job, past) /\ \A r : RowFits(job, r) => KeepsEnd(r, past)
  <2>1. CASE past = Jobs!NoLine
    <3>1. LineFits(job, past) /\ past.run = 0
      BY <1>1, <2>1, NoneFits, NoneTypes
    <3> QED BY <3>1 DEF RowFits, Told, KeepsEnd
  <2> QED BY <1>1, <2>1, HistoryFits
<1>4. ASSUME NEW z, ThreadFits(job, row, z), z.at \in Jobs!Holding
      PROVE  ThreadFits(job, row, [z EXCEPT !.at = "save", !.line = Jobs!Observed(z.line, past)])
  <2> DEFINE line == Jobs!Observed(z.line, past)
             x == [z EXCEPT !.at = "save", !.line = line]
  <2>1. LineFits(job, line) /\ KeepsEnd(z.row, line)
    BY <1>3, <1>4 DEF ThreadFits, Jobs!Observed
  <2> HIDE DEF line
  <2>2. x \in ThreadTypes /\ x.row = z.row /\ x.line = line
    BY <1>4, <2>1 DEF ThreadFits, ThreadTypes, LineFits, Jobs!Holding
  <2> HIDE DEF x
  <2>3. ThreadFits(job, row, x)
    BY <1>4, <2>1, <2>2 DEF ThreadFits
  <2> QED BY <2>3 DEF x, line
<1> QED BY <1>1, <1>2, <1>4, CenterMoves

\* What a refresh makes of a row and the line it has found, or not found.
Refreshed(old, line) == IF line = Jobs!NoLine THEN [old EXCEPT !.state = Jobs!Missing(old)]
                        ELSE Jobs!Seen(old, line)

LEMMA RefreshedFits ==
    ASSUME NEW j, NEW old, RowFits(j, old), NEW line, LineFits(j, line), KeepsEnd(old, line)
    PROVE  /\ RowFits(j, Refreshed(old, line))
           /\ Scheduler = "pbs" /\ old.state \in Jobs!Terminal
                 /\ Refreshed(old, line).run = old.run => Refreshed(old, line).state = old.state
<1>1. CASE line = Jobs!NoLine
  <2> DEFINE state == Jobs!Missing(old)
             new == [old EXCEPT !.state = state]
  <2>1. /\ old.state \in Jobs!Terminal => state = old.state
        /\ state \in Jobs!States /\ (state \in Jobs!Terminal => state = old.state)
    BY DEF Jobs!Missing, Jobs!States, Jobs!Terminal
  <2>2. Told(j, old.run, state)
    BY <2>1 DEF RowFits, Told
  <2> HIDE DEF state
  <2>3. /\ new \in Jobs!RowSet /\ new.run = old.run /\ new.state = state
        /\ new.dir = old.dir /\ new.project = old.project /\ new.bound = old.bound
    BY <2>1 DEF RowFits, Jobs!RowSet
  <2>4. Refreshed(old, line) = new
    BY <1>1 DEF Refreshed, state
  <2> HIDE DEF new
  <2> QED BY <2>1, <2>2, <2>3, <2>4 DEF RowFits, Associated
<1>2. CASE line # Jobs!NoLine
  <2> DEFINE new == Jobs!Seen(old, line)
  <2>1. Refreshed(old, line) = new
    BY <1>2 DEF Refreshed
  <2>2. /\ line.run \in 0 .. MaxRuns /\ line.state \in Jobs!States
        /\ line.dir \in Jobs!Dirs \cup {NoDir} /\ line.started \in 0 .. MaxRuns
        /\ old.started \in 0 .. MaxRuns /\ old.project \in Projects \cup {NoProject}
        /\ old.bound \in Jobs!Dirs \cup {NoDir}
    BY DEF LineFits, RowFits, Jobs!Lines, Jobs!RowSet
  <2>3. new \in Jobs!RowSet
    BY <2>2 DEF Jobs!Seen, Jobs!RowSet
  <2>4. new.run = line.run /\ new.state = line.state
    BY DEF Jobs!Seen
  <2>5. Associated(new)
    BY DEF Jobs!Seen, Jobs!SameJob, Associated, RowFits
  <2> HIDE DEF new
  <2> QED BY <2>1, <2>3, <2>4, <2>5 DEF RowFits, LineFits, KeepsEnd
<1> QED BY <1>1, <1>2

LEMMA SaveRefreshKeeps ==
    ASSUME JobsInv, NEW t \in Threads, Jobs!SaveRefresh(t)
    PROVE  JobsInv'
<1> DEFINE old == thread[t].row
           line == thread[t].line
<1>1. /\ HoldsAlone(t) /\ CenterFrame /\ ThreadFits(job, row, thread[t]) /\ JobFits(job)
      /\ stale' \in BOOLEAN /\ thread[t].at \in Jobs!Holding /\ Jobs!AfterRefresh(t)
      /\ row' \in Jobs!Kept(Refreshed(old, line))
  BY FreeAlone DEF Jobs!SaveRefresh, CenterFrame, JobsInv, Jobs!Holding, Refreshed
<1>2. RowFits(job, old) /\ LineFits(job, line) /\ KeepsEnd(old, line)
  BY <1>1 DEF ThreadFits
<1> HIDE DEF old, line
<1>3. RowFits(job, Refreshed(old, line))
  BY <1>2, RefreshedFits
<1>4. RowFits(job, row')
  BY <1>1, <1>3, NoneFits DEF Jobs!Kept
<1>5. PICK x : /\ thread' = [thread EXCEPT ![t] = x] /\ x.at \notin Jobs!Holding
               /\ \A w : ThreadFits(job, w, x)
  BY <1>1, AfterFits
<1> QED BY <1>1, <1>4, <1>5, CenterMoves

\* On the way to an association nothing is held.
LEMMA GoesOn ==
    ASSUME NEW j, NEW w, NEW z, ThreadFits(j, w, z), NEW d \in Jobs!Dirs \cup {NoDir},
           NEW point \in {"locate", "write"}
    PROVE  LET x == [z EXCEPT !.at = point, !.dir = d]
           IN  ThreadFits(j, w, x) /\ x.at \notin Jobs!Holding
<1> DEFINE x == [z EXCEPT !.at = point, !.dir = d]
<1>1. x \in ThreadTypes /\ x.row = z.row /\ x.line = z.line /\ x.at = point
  BY DEF ThreadFits, ThreadTypes
<1>2. point \notin Jobs!Holding
  BY DEF Jobs!Holding
<1> HIDE DEF x
<1>3. ThreadFits(j, w, x) /\ x.at \notin Jobs!Holding
  BY <1>1, <1>2 DEF ThreadFits
<1> QED BY <1>3 DEF x

LEMMA KnownKeeps ==
    ASSUME JobsInv, NEW t \in Threads, Jobs!Known(t)
    PROVE  JobsInv'
<1>1. /\ CenterFrame /\ ThreadFits(job, row, thread[t]) /\ RowFits(job, row)
      /\ stale' = stale /\ row' = row /\ stale' \in BOOLEAN
  BY FreeAlone DEF Jobs!Known, CenterFrame, JobsInv
<1>2. PICK r \in Jobs!Loaded :
          \/ Jobs!Leave(t)
          \/ thread' = [thread EXCEPT ![t] = [thread[t] EXCEPT !.at = "locate", !.dir = r.dir]]
  BY DEF Jobs!Known
<1>3. r.dir \in Jobs!Dirs \cup {NoDir}
  BY LoadedFits DEF RowFits, Jobs!RowSet
<1>4. CASE Jobs!Leave(t)
  BY <1>1, <1>4, LetsGo
<1>5. CASE thread' = [thread EXCEPT ![t] = [thread[t] EXCEPT !.at = "locate", !.dir = r.dir]]
  <2> DEFINE x == [thread[t] EXCEPT !.at = "locate", !.dir = r.dir]
  <2>1. ThreadFits(job, row, x) /\ x.at \notin Jobs!Holding
    BY <1>1, <1>3, GoesOn
  <2> HIDE DEF x
  <2>2. thread' = [thread EXCEPT ![t] = x]
    BY <1>5 DEF x
  <2> QED BY <1>1, <2>1, <2>2, CenterMoves
<1> QED BY <1>2, <1>4, <1>5

LEMMA LocateKeeps ==
    ASSUME JobsInv, NEW t \in Threads, Jobs!Locate(t)
    PROVE  JobsInv'
<1>1. /\ CenterFrame /\ ThreadFits(job, row, thread[t]) /\ RowFits(job, row)
      /\ stale' = stale /\ row' = row /\ stale' \in BOOLEAN
  BY FreeAlone DEF Jobs!Locate, CenterFrame, JobsInv
<1>2. CASE Jobs!Leave(t)
  BY <1>1, <1>2, LetsGo
<1>3. CASE \E d \in Jobs!Locations(t) :
              thread' = [thread EXCEPT ![t] = [thread[t] EXCEPT !.at = "write", !.dir = d]]
  <2>1. PICK d \in Jobs!Locations(t) :
            thread' = [thread EXCEPT ![t] = [thread[t] EXCEPT !.at = "write", !.dir = d]]
    BY <1>3
  <2>2. d = thread[t].dir
    BY DEF Jobs!Locations
  <2>3. d \in Jobs!Dirs \cup {NoDir}
    BY <1>1, <2>2 DEF ThreadFits, ThreadTypes
  <2> DEFINE x == [thread[t] EXCEPT !.at = "write", !.dir = d]
  <2>4. ThreadFits(job, row, x) /\ x.at \notin Jobs!Holding
    BY <1>1, <2>3, GoesOn
  <2> HIDE DEF x
  <2>5. thread' = [thread EXCEPT ![t] = x]
    BY <2>1 DEF x
  <2> QED BY <1>1, <2>4, <2>5, CenterMoves
<1> QED BY <1>2, <1>3 DEF Jobs!Locate

LEMMA AssociateKeeps ==
    ASSUME JobsInv, NEW t \in Threads, Jobs!Associate(t)
    PROVE  JobsInv'
<1>1. /\ CenterFrame /\ ThreadFits(job, row, thread[t]) /\ RowFits(job, row)
      /\ stale' = stale /\ HoldsAlone(t) /\ Jobs!Leave(t)
  BY FreeAlone DEF Jobs!Associate, CenterFrame, JobsInv
<1>2. PICK r \in Jobs!Loaded :
          \/ UNCHANGED row
          \/ row' = [r EXCEPT !.dir = thread[t].dir, !.bound = thread[t].dir,
                             !.project = thread[t].for]
  BY DEF Jobs!Associate
<1>3. RowFits(job, row')
  <2>1. /\ RowFits(job, r) /\ thread[t].dir \in Jobs!Dirs \cup {NoDir}
        /\ thread[t].for \in Projects \cup {NoProject}
    BY <1>1, LoadedFits DEF ThreadFits, ThreadTypes
  <2>2. ASSUME NEW d \in Jobs!Dirs \cup {NoDir}, NEW q \in Projects \cup {NoProject}
        PROVE  RowFits(job, [r EXCEPT !.dir = d, !.bound = d, !.project = q])
    <3> DEFINE new == [r EXCEPT !.dir = d, !.bound = d, !.project = q]
    <3>1. /\ new \in Jobs!RowSet /\ new.run = r.run /\ new.state = r.state
          /\ new.bound = d /\ new.dir = d
      BY <2>1 DEF RowFits, Jobs!RowSet
    <3> HIDE DEF new
    <3>2. RowFits(job, new)
      BY <2>1, <3>1 DEF RowFits, Associated
    <3> QED BY <3>2 DEF new
  <2> QED BY <1>1, <1>2, <2>1, <2>2
<1> QED BY <1>1, <1>3, LetsGo

LEMMA DieKeeps ==
    ASSUME JobsInv, NEW t \in Threads, Jobs!Die(t)
    PROVE  JobsInv'
<1>1. /\ CenterFrame /\ RowFits(job, row) /\ stale' = stale /\ row' = row /\ Jobs!Leave(t)
  BY DEF Jobs!Die, CenterFrame, JobsInv
<1> QED BY <1>1, LetsGo

\* How the scheduler goes on: what is over is over.
Later(j, k) ==
    \/ k.run = j.run + 1 /\ k.phase = "queued"
    \/ k.run = j.run /\ (j.phase \in Jobs!Over => k.phase = "gone")

LEMMA ToldLater ==
    ASSUME NEW j, JobFits(j), NEW k, JobFits(k), Later(j, k), NEW r, NEW s, Told(j, r, s)
    PROVE  Told(k, r, s)
<1>1. j.run \in Nat /\ k.run \in Nat
  BY RecordConstants DEF JobFits
<1> QED BY <1>1 DEF Told, Later, Jobs!Over

\* The scheduler goes on, and nobody has noticed.
LEMMA JobMoves ==
    ASSUME JobsInv, JobFits(job'), Later(job, job'), SubmitterFits(job', submitter'),
           UNCHANGED <<book, row, stale, receipts, entry, thread, lister>>
    PROVE  JobsInv'
<1>1. JobFits(job) /\ job.run \in Nat /\ job'.run \in Nat /\ job.run <= job'.run
  BY RecordConstants DEF JobsInv, JobFits, Later
<1>2. \A r, s : Told(job, r, s) => Told(job', r, s)
  BY <1>1, ToldLater
<1>3. \A x : RowFits(job, x) => RowFits(job', x)
  BY <1>2 DEF RowFits
<1>4. \A x : LineFits(job, x) => LineFits(job', x)
  BY <1>2 DEF LineFits
<1>5. \A x : EntryFits(job, x) => EntryFits(job', x)
  BY <1>2 DEF EntryFits
<1>6. \A w, x : ThreadFits(job, w, x) => ThreadFits(job', w, x)
  BY <1>3, <1>4 DEF ThreadFits
<1>7. ThreadsFit'
  BY <1>6 DEF JobsInv, ThreadsFit, HoldsAlone
<1>8. ListersFit'
  BY <1>5 DEF JobsInv, ListersFit, ListerFits
<1>9. receipts' \subseteq 1 .. job'.run
  BY <1>1 DEF JobsInv
<1> QED BY <1>3, <1>5, <1>7, <1>8, <1>9 DEF JobsInv

LEMMA AdvanceKeeps ==
    ASSUME JobsInv, Jobs!Advance
    PROVE  JobsInv'
<1>1. PICK turn \in Jobs!Turns : job.phase = turn[1] /\ job' = [job EXCEPT !.phase = turn[2]]
  BY DEF Jobs!Advance
<1>2. JobFits(job) /\ SubmitterFits(job, submitter)
  BY DEF JobsInv
<1>3. /\ turn[2] \in Jobs!Phases /\ turn[1] \in Jobs!Phases \ {"none"}
      /\ turn[1] \in Jobs!Over => turn[2] = "gone"
      /\ Scheduler = "pbs" => turn[2] # "configuring"
  BY DEF Jobs!Turns, Jobs!Phases, Jobs!Over
<1>4. /\ job'.run = job.run /\ job'.phase = turn[2] /\ job.run # 0
      /\ job' \in [run : 0 .. MaxRuns, phase : Jobs!Phases]
  BY <1>1, <1>2, <1>3 DEF JobFits
<1>5. JobFits(job') /\ Later(job, job') /\ SubmitterFits(job', submitter)
  BY <1>1, <1>2, <1>3, <1>4 DEF JobFits, Later, SubmitterFits
<1> QED BY <1>5, JobMoves DEF Jobs!Advance

LEMMA AcceptKeeps ==
    ASSUME JobsInv, Jobs!Accept
    PROVE  JobsInv'
<1>1. JobFits(job) /\ SubmitterFits(job, submitter) /\ job.run \in Nat
  BY RecordConstants DEF JobsInv, JobFits
<1>2. /\ job'.run = job.run + 1 /\ job'.phase = "queued" /\ job'.run \in 1 .. MaxRuns
      /\ job' \in [run : 0 .. MaxRuns, phase : Jobs!Phases]
  BY <1>1, RecordConstants DEF Jobs!Accept, Jobs!Phases
<1>3. JobFits(job') /\ Later(job, job')
  BY <1>2 DEF JobFits, Later
<1>4. SubmitterFits(job', submitter')
  <2>1. CASE submitter' = submitter
    BY <1>1, <1>2, <2>1 DEF SubmitterFits
  <2>2. CASE submitter' = [at |-> "record", run |-> job.run + 1]
    BY <1>1, <1>2, <2>2 DEF SubmitterFits
  <2> QED BY <2>1, <2>2 DEF Jobs!Accept
<1> QED BY <1>3, <1>4, JobMoves DEF Jobs!Accept

\* The steps that leave the scheduler and the center's threads alone.
LEMMA OthersMove ==
    ASSUME JobsInv, UNCHANGED <<job, book, stale, thread>>,
           row' = row \/ (Jobs!LockFree /\ RowFits(job, row')),
           SubmitterFits(job, submitter'), receipts' \subseteq 1 .. job.run,
           EntryFits(job, entry'), ListersFit'
    PROVE  JobsInv'
<1>1. RowFits(job, row')
  BY DEF JobsInv
<1>2. \A t \in Threads : ThreadFits(job, row', thread[t])
  <2>1. CASE row' = row
    BY <2>1 DEF JobsInv, ThreadsFit
  <2>2. CASE Jobs!LockFree
    BY <2>2, FreeFits DEF JobsInv, ThreadsFit, Jobs!LockFree
  <2> QED BY <2>1, <2>2
<1>3. ThreadsFit'
  BY <1>2 DEF JobsInv, ThreadsFit, HoldsAlone
<1> QED BY <1>1, <1>3 DEF JobsInv

LEMMA IdleSubmitterFits ==
    ASSUME NEW j
    PROVE  SubmitterFits(j, Jobs!IdleSubmitter)
BY RecordConstants DEF SubmitterFits, Jobs!IdleSubmitter

LEMMA SubmissionKeeps ==
    ASSUME JobsInv, \/ Jobs!RecordSubmission \/ Jobs!Seed \/ Jobs!KeepReceipt
                    \/ Jobs!SubmitterDies
    PROVE  JobsInv'
<1>1. /\ JobFits(job) /\ SubmitterFits(job, submitter) /\ ListersFit /\ EntryFits(job, entry)
      /\ receipts \subseteq 1 .. job.run /\ RowFits(job, row)
  BY DEF JobsInv
<1>2. ASSUME submitter.at # "idle", NEW point \in {"seed", "receipt"}
      PROVE  SubmitterFits(job, [submitter EXCEPT !.at = point])
  BY <1>1, <1>2 DEF SubmitterFits
<1>3. CASE Jobs!RecordSubmission
  <2>1. ListersFit' /\ SubmitterFits(job, submitter')
    BY <1>1, <1>2, <1>3 DEF Jobs!RecordSubmission, ListersFit
  <2>2. submitter.run \in 1 .. job.run
    BY <1>1, <1>3 DEF Jobs!RecordSubmission, SubmitterFits
  <2>3. \A r \in Jobs!Loaded : RowFits(job, Jobs!Recorded(r))
    BY <1>1, <2>2, LoadedFits, SubmittedFits DEF Jobs!Recorded
  <2> QED BY <1>1, <1>3, <2>1, <2>3, OthersMove DEF Jobs!RecordSubmission
<1>4. CASE Jobs!Seed
  <2>1. ListersFit' /\ SubmitterFits(job, submitter')
    BY <1>1, <1>2, <1>4 DEF Jobs!Seed, ListersFit
  <2>2. submitter.run \in 1 .. job.run /\ submitter.run \in 0 .. MaxRuns
    BY <1>1, <1>4 DEF Jobs!Seed, SubmitterFits
  <2>3. submitter.run \in 0 .. job.run /\ "PENDING" \in Jobs!States \ Jobs!Terminal
    BY <1>1, <2>2 DEF JobFits, Jobs!States, Jobs!Terminal
  <2>4. EntryFits(job, Jobs!Seeded)
    BY <1>1, <2>2, <2>3, NoneFits DEF EntryFits, Jobs!Seeded, Jobs!EntrySet
  <2> QED BY <1>1, <1>4, <2>1, <2>4, OthersMove DEF Jobs!Seed
<1>5. CASE Jobs!KeepReceipt
  <2>1. ListersFit' /\ SubmitterFits(job, submitter')
    BY <1>1, <1>5, IdleSubmitterFits DEF Jobs!KeepReceipt, ListersFit
  <2>2. submitter.run \in 1 .. job.run
    BY <1>1, <1>5 DEF Jobs!KeepReceipt, SubmitterFits
  <2> QED BY <1>1, <1>5, <2>1, <2>2, OthersMove DEF Jobs!KeepReceipt
<1>6. CASE Jobs!SubmitterDies
  <2>1. ListersFit' /\ SubmitterFits(job, submitter')
    BY <1>1, <1>6, IdleSubmitterFits DEF Jobs!SubmitterDies, ListersFit
  <2> QED BY <1>1, <1>6, <2>1, OthersMove DEF Jobs!SubmitterDies
<1> QED BY <1>3, <1>4, <1>5, <1>6

\* A lister takes a step, and may write the entry.
LEMMA ListerMoves ==
    ASSUME JobsInv, UNCHANGED <<job, book, row, stale, receipts, thread, submitter>>,
           NEW l \in Listers, NEW x, lister' = [lister EXCEPT ![l] = x], ListerFits(job, x),
           EntryFits(job, entry')
    PROVE  JobsInv'
<1>1. ListersFit'
  BY DEF JobsInv, ListersFit, ListerFits
<1> QED BY <1>1, OthersMove DEF JobsInv

LEMMA FoldedFits ==
    ASSUME NEW j, NEW line, LineFits(j, line)
    PROVE  EntryFits(j, Jobs!Folded(line))
BY DEF LineFits, EntryFits, Jobs!Folded, Jobs!Lines, Jobs!EntrySet

LEMMA LedgerKeeps ==
    ASSUME JobsInv, NEW l \in Listers, Jobs!LedgerStep(l)
    PROVE  JobsInv'
<1>1. /\ JobFits(job) /\ EntryFits(job, entry) /\ ListerFits(job, lister[l])
  BY DEF JobsInv, ListersFit
<1>2. ASSUME NEW point \in {"idle", "listed", "recent", "both"}, NEW e, EntryFits(job, e)
      PROVE  ListerFits(job, [at |-> point, line |-> e])
  BY <1>2 DEF ListerFits, ListerTypes, EntryFits
<1>3. ListerFits(job, Jobs!IdleLister)
  BY <1>1, <1>2, NoneFits DEF Jobs!IdleLister
<1>4. CASE Jobs!List(l)
  <2>1. PICK line \in Jobs!Queue, next \in {"listed", "recent"} :
            lister' = [lister EXCEPT ![l] = [at |-> next, line |-> Jobs!Folded(line)]]
    BY <1>4 DEF Jobs!List
  <2>2. EntryFits(job, Jobs!Folded(line))
    BY <1>1, QueueFits, FoldedFits
  <2>3. ListerFits(job, [at |-> next, line |-> Jobs!Folded(line)])
    BY <1>2, <2>2
  <2> QED BY <1>1, <1>4, <2>1, <2>3, ListerMoves DEF Jobs!List
<1>5. CASE Jobs!Recent(l)
  <2>1. CASE lister' = [lister EXCEPT ![l] = Jobs!IdleLister]
    BY <1>1, <1>3, <1>5, <2>1, ListerMoves DEF Jobs!Recent
  <2>2. CASE \E line \in Jobs!History :
                lister' = [lister EXCEPT ![l] =
                    [at |-> "both", line |-> Jobs!Observed(lister[l].line, Jobs!Folded(line))]]
    <3>1. PICK line \in Jobs!History :
              lister' = [lister EXCEPT ![l] =
                  [at |-> "both", line |-> Jobs!Observed(lister[l].line, Jobs!Folded(line))]]
      BY <2>2
    <3> DEFINE e == Jobs!Observed(lister[l].line, Jobs!Folded(line))
    <3>2. EntryFits(job, e)
      BY <1>1, HistoryFits, FoldedFits DEF Jobs!Observed, ListerFits
    <3>3. ListerFits(job, [at |-> "both", line |-> e])
      BY <1>2, <3>2
    <3> QED BY <1>1, <1>5, <3>1, <3>3, ListerMoves DEF Jobs!Recent
  <2> QED BY <1>5, <2>1, <2>2 DEF Jobs!Recent
<1>6. CASE Jobs!Observe(l)
  <2>1. EntryFits(job, Jobs!Inferred(entry))
    <3> DEFINE state == Jobs!Missing(entry)
    <3>1. state \in Jobs!States /\ (state \in Jobs!Terminal => state = entry.state)
      BY DEF Jobs!Missing, Jobs!States, Jobs!Terminal
    <3> HIDE DEF state
    <3>2. Told(job, entry.run, state)
      BY <1>1, <3>1 DEF EntryFits, Told
    <3>3. EntryFits(job, [entry EXCEPT !.state = state])
      BY <1>1, <3>1, <3>2 DEF EntryFits, Jobs!EntrySet
    <3> QED BY <3>3 DEF Jobs!Inferred, state
  <2>2. entry' \in {entry, lister[l].line, Jobs!Inferred(entry)}
    BY <1>6 DEF Jobs!Observe
  <2>3. EntryFits(job, entry')
    BY <1>1, <2>1, <2>2 DEF ListerFits
  <2> QED BY <1>3, <1>6, <2>3, ListerMoves DEF Jobs!Observe
<1> QED BY <1>4, <1>5, <1>6 DEF Jobs!LedgerStep

LEMMA PruneKeeps ==
    ASSUME JobsInv, Jobs!Prune
    PROVE  JobsInv'
<1>1. EntryFits(job, entry') /\ ListersFit'
  BY NoneFits DEF JobsInv, Jobs!Prune, ListersFit
<1> QED BY <1>1, OthersMove DEF JobsInv, Jobs!Prune
-----------------------------------------------------------------------------
LEMMA JobsInit ==
    ASSUME Jobs!Init
    PROVE  JobsInv
<1>1. JobFits(job)
  BY RecordConstants DEF Jobs!Init, JobFits, Jobs!Phases
<1>2. RowFits(job, row) /\ EntryFits(job, entry) /\ receipts \subseteq 1 .. job.run
  BY <1>1, NoneFits DEF Jobs!Init
<1>3. SubmitterFits(job, submitter)
  BY IdleSubmitterFits DEF Jobs!Init
<1>4. ThreadsFit
  <2>1. ThreadFits(job, row, Jobs!IdleThread) /\ Jobs!IdleThread.at = "idle"
    BY <1>1, IdleFits
  <2>2. "idle" \notin Jobs!Holding
    BY DEF Jobs!Holding
  <2> QED BY <2>1, <2>2 DEF ThreadsFit, ThreadFits, Jobs!Init
<1>5. ListersFit
  <2>1. ListerFits(job, Jobs!IdleLister)
    BY <1>1, NoneFits DEF ListerFits, ListerTypes, Jobs!IdleLister, EntryFits
  <2> QED BY <2>1 DEF ListersFit, ListerFits, Jobs!Init
<1> QED BY <1>1, <1>2, <1>3, <1>4, <1>5 DEF JobsInv, Jobs!Init

LEMMA JobsStutter ==
    ASSUME JobsInv, UNCHANGED Jobs!vars
    PROVE  JobsInv'
<1>1. ThreadsFit' /\ ListersFit'
  BY DEF JobsInv, ThreadsFit, ListersFit, HoldsAlone, Jobs!vars
<1> QED BY <1>1 DEF JobsInv, Jobs!vars

LEMMA JobsNext ==
    ASSUME JobsInv, [Jobs!Next]_Jobs!vars
    PROVE  JobsInv'
<1>1. ASSUME NEW t \in Threads, Jobs!CenterStep(t) PROVE JobsInv'
  BY <1>1, RefreshKeeps, AskQueueKeeps, AskHistoryKeeps, SaveRefreshKeeps, KnownKeeps,
     LocateKeeps, AssociateKeeps, DieKeeps DEF Jobs!CenterStep
<1> QED
  BY <1>1, AdvanceKeeps, AcceptKeeps, SubmissionKeeps, LedgerKeeps, PruneKeeps, JobsStutter
     DEF Jobs!Next, Jobs!Submission

\* The invariant of what is shown of a job, for any threads, listers, runs and either
\* scheduler.
THEOREM JobsInvariant == Jobs!Spec => []JobsInv
<1>1. Jobs!Init => JobsInv
  BY JobsInit
<1>2. JobsInv /\ [Jobs!Next]_Jobs!vars => JobsInv'
  BY JobsNext
<1> QED BY <1>1, <1>2, PTL DEF Jobs!Spec

\* The variables of JobRecords keep their types.
THEOREM JobsTypeCorrect == Jobs!Spec => []Jobs!TypeOK
<1>1. JobsInv => Jobs!TypeOK
  <2> SUFFICES ASSUME JobsInv PROVE Jobs!TypeOK
    OBVIOUS
  <2>1. receipts \subseteq Jobs!Runs
    BY RecordConstants DEF JobsInv, JobFits, Jobs!Runs
  <2> QED
    BY <2>1 DEF JobsInv, JobFits, SubmitterFits, RowFits, EntryFits, ThreadsFit, ThreadTypes,
       ListersFit, ListerTypes, Jobs!TypeOK
<1> QED BY <1>1, JobsInvariant, PTL

\* With PBS what is shown as ended has ended, in the center and in the ledger
\* (RemoteCenter.refresh, JobLedger.observe).
THEOREM ShowsEndsTruly ==
    ASSUME Scheduler = "pbs"
    PROVE  Jobs!Spec => []EndedTruly
<1>1. JobsInv => EndedTruly
  BY DEF JobsInv, RowFits, EntryFits, Told, EndedTruly, Jobs!EndedTruly, Jobs!IsOver
<1> QED BY <1>1, JobsInvariant, PTL

\* An association is with the directory that the row shows (RemoteCenter.associate).
THEOREM KeepsAssociations == Jobs!Spec => []AssociationFits
<1>1. JobsInv => AssociationFits
  BY DEF JobsInv, RowFits, Associated, AssociationFits, Jobs!AssociationFits
<1> QED BY <1>1, JobsInvariant, PTL

\* A row that shows an end, and the steps that write the row.
EndKept == row.state \in Jobs!Terminal /\ row'.run = row.run => row'.state = row.state

LEMMA WritesKeepEnds ==
    ASSUME JobsInv, Scheduler = "pbs", NEW t \in Threads,
           Jobs!AskQueue(t) \/ Jobs!SaveRefresh(t) \/ Jobs!Associate(t)
    PROVE  EndKept
<1> SUFFICES ASSUME row.state \in Jobs!Terminal, row'.run = row.run
             PROVE  row'.state = row.state
  BY DEF EndKept
<1>1. row # Jobs!NoRow /\ row.run # 0
  BY NoneTypes DEF JobsInv, RowFits, Told
<1>2. ThreadFits(job, row, thread[t])
  BY DEF JobsInv, ThreadsFit
<1>3. thread[t].at \in Jobs!Holding => thread[t].row = row
  BY <1>1, <1>2 DEF ThreadFits
<1>4. CASE Jobs!AskQueue(t)
  BY <1>3, <1>4 DEF Jobs!AskQueue, Jobs!Holding
<1>5. CASE Jobs!SaveRefresh(t)
  <2> DEFINE line == thread[t].line
  <2>1. /\ thread[t].at \in Jobs!Holding
        /\ row' \in Jobs!Kept(Refreshed(thread[t].row, line))
    BY <1>5 DEF Jobs!SaveRefresh, Jobs!Holding, Refreshed
  <2>2. RowFits(job, row) /\ LineFits(job, line) /\ KeepsEnd(row, line)
    BY <1>2, <1>3, <2>1 DEF ThreadFits
  <2>3. row' \in {Refreshed(row, line), Jobs!NoRow}
    BY <1>3, <2>1 DEF Jobs!Kept
  <2> HIDE DEF line
  <2>4. Refreshed(row, line).run = row.run => Refreshed(row, line).state = row.state
    BY <2>2, RefreshedFits
  <2> QED BY <1>1, <2>3, <2>4, NoneTypes
<1>6. CASE Jobs!Associate(t)
  <2>1. PICK r \in Jobs!Loaded :
            \/ UNCHANGED row
            \/ row' = [r EXCEPT !.dir = thread[t].dir, !.bound = thread[t].dir,
                               !.project = thread[t].for]
    BY <1>6 DEF Jobs!Associate
  <2>2. r = row /\ row \in Jobs!RowSet
    BY <1>1, LoadedFits DEF JobsInv, RowFits
  <2> QED BY <2>1, <2>2 DEF Jobs!RowSet
<1> QED BY <1>4, <1>5, <1>6

LEMMA StepsKeepEnds ==
    ASSUME JobsInv, Scheduler = "pbs", [Jobs!Next]_Jobs!vars
    PROVE  EndKept
<1>1. CASE row' = row
  BY <1>1 DEF EndKept
<1>2. CASE Jobs!RecordSubmission
  <2>1. CASE \E r \in Jobs!Loaded : row' = Jobs!Recorded(r)
    <3>1. PICK r \in Jobs!Loaded : row' = Jobs!Recorded(r)
      BY <2>1
    <3>2. row # Jobs!NoRow => r = row
      BY LoadedFits
    <3> QED BY <3>1, <3>2, NoneTypes DEF EndKept, Jobs!Recorded
  <2> QED BY <1>1, <1>2, <2>1 DEF Jobs!RecordSubmission
<1>3. ASSUME NEW t \in Threads, Jobs!CenterStep(t) PROVE EndKept
  <2>1. \/ Jobs!AskQueue(t) \/ Jobs!SaveRefresh(t) \/ Jobs!Associate(t)
        \/ row' = row
    BY <1>3 DEF Jobs!CenterStep, Jobs!Refresh, Jobs!AskHistory, Jobs!Known, Jobs!Locate, Jobs!Die
  <2> QED BY <1>1, <2>1, WritesKeepEnds
<1> QED
  BY <1>1, <1>2, <1>3 DEF Jobs!Next, Jobs!vars, Jobs!Advance, Jobs!Submission, Jobs!Accept, Jobs!Seed,
     Jobs!KeepReceipt, Jobs!SubmitterDies, Jobs!Prune, Jobs!LedgerStep, Jobs!List, Jobs!Recent,
     Jobs!Observe

\* With PBS a row that shows how a job ended keeps showing it until another job has its id
\* or it is crowded out (RemoteCenter.refresh, record_submission, associate).
THEOREM KeepsEnds ==
    ASSUME Scheduler = "pbs"
    PROVE  Jobs!Spec => EndsStay
<1>1. JobsInv /\ [Jobs!Next]_Jobs!vars =>
          [row.state \in Jobs!Terminal /\ row'.run = row.run => row'.state = row.state]_row
  BY StepsKeepEnds DEF EndKept
<1> QED BY <1>1, JobsInvariant, PTL DEF Jobs!Spec, EndsStay, Jobs!EndsStay
-----------------------------------------------------------------------------
(* The servers and their logins *)

Giving == {"unregister", "forget"}        \* steps that take a login away
Route(n, e) == e = Servers!None \/ (e \in Servers!Entries /\ (Host[n] \in VlabHosts => e.route = "vlab"))
Mirrors == {m \in [Names -> Servers!Entries \cup {Servers!None}] : \A n \in Names : Route(n, m[n])}
Catalogs == [Names -> Servers!Registered \cup {Servers!None}]
PullTypes == {Servers!NoPull} \cup [at : {"asked"}, local : Mirrors]
             \cup [at : {"answered"}, local : Mirrors, remote : Catalogs]

\* The steps of an edit that are still to do: the login is saved before, and under another
\* name than, what is given up, and only one name is.
Orderly(s) ==
    /\ s \in Seq(Servers!Steps)
    /\ \A i, j \in 1 .. Len(s) :
          s[i][1] \in Giving =>
              /\ s[j][1] \in Giving => s[j][2] = s[i][2]
              /\ s[j][1] \in {"register", "login"} => j < i
              /\ s[j][1] = "login" => s[j][2] # s[i][2]

\* What the entry and the login of an edit are needed for.
Carried(s, e, l) ==
    \A i \in 1 .. Len(s) :
        /\ s[i][1] = "register" => e \in Servers!Entries
        /\ s[i][1] = "amend" => e \in Servers!Entries
        /\ s[i][1] = "upsert" => e \in Servers!Entries /\ Route(s[i][2], e)
        /\ s[i][1] = "login" => l \in Servers!Logins

\* Host h can be logged in to under another name than n; or it will be.
Under(c, l, m) == c[m] # Servers!None /\ l[m] # Servers!None
LoginSafe(c, l, ks) == \A h \in ks : \E m \in Names : Host[m] = h /\ Under(c, l, m)
SafeWithout(c, l, n, h) == \E m \in Names \ {n} : Host[m] = h /\ Under(c, l, m)
Promised(c, s, h) ==
    \E k \in 1 .. Len(s) :
        /\ s[k][1] = "login" /\ Host[s[k][2]] = h
        /\ \/ c[s[k][2]] # Servers!None
           \/ \E j \in 1 .. k - 1 : s[j] = <<"register", s[k][2]>>
KeptSafe(c, l, s, ks) ==
    \A h \in ks : \A i \in 1 .. Len(s) :
        s[i][1] \in Giving /\ Host[s[i][2]] = h =>
            SafeWithout(c, l, s[i][2], h) \/ Promised(c, s, h)

EditTypes == [todo : Seq(Servers!Steps), entry : Servers!Entries \cup {Servers!None},
              login : Servers!Logins \cup {Servers!None, Servers!Clear}]
EditFits(x) == /\ x \in EditTypes
               /\ x = Servers!NoJob \/ x.todo # <<>>
               /\ Orderly(x.todo) /\ Carried(x.todo, x.entry, x.login)

ServersInv ==
    /\ catalog \in Catalogs /\ mirror \in Mirrors
    /\ logins \in [Names -> Servers!Logins \cup {Servers!None}]
    /\ pull \in PullTypes
    /\ kept \subseteq VlabHosts /\ requests \in 0 .. MaxRequests
    /\ EditFits(edit)
    /\ LoginSafe(catalog, logins, kept)
    /\ KeptSafe(catalog, logins, edit.todo, kept)
-----------------------------------------------------------------------------
LEMMA ServerTypes ==
    /\ Host \in [Names -> Hosts] /\ VlabHosts \subseteq Hosts /\ MaxRequests \in Nat
BY ServerConstants DEF Servers!CatalogAssumption

\* Nothing is not something.
LEMMA Distinct ==
    /\ Servers!None \notin Servers!Registered
    /\ Servers!None \notin Servers!Entries
    /\ Servers!None \notin Servers!Logins
    /\ Servers!Clear \notin Servers!Logins
    /\ Servers!Clear # Servers!None
    /\ Servers!NoPull \notin [at : {"asked"}, local : Mirrors]
    /\ Servers!NoPull \notin [at : {"answered"}, local : Mirrors, remote : Catalogs]
BY DEF Servers!None, Servers!Registered, Servers!Entries, Servers!Logins, Servers!Clear, Servers!NoPull

\* What is left of a sequence of steps.
LEMMA Rest ==
    ASSUME NEW s \in Seq(Servers!Steps), s # <<>>
    PROVE  /\ Len(s) \in Nat \ {0} /\ Head(s) = s[1]
           /\ Tail(s) \in Seq(Servers!Steps) /\ Len(Tail(s)) = Len(s) - 1
           /\ \A i \in 1 .. Len(Tail(s)) : i + 1 \in 1 .. Len(s) /\ Tail(s)[i] = s[i + 1]
<1>1. Len(s) \in Nat /\ Len(s) # 0
  BY EmptySeq, LenProperties
<1>2. /\ Tail(s) \in Seq(Servers!Steps) /\ Len(Tail(s)) = Len(s) - 1
      /\ \A i \in 1 .. Len(Tail(s)) : Tail(s)[i] = s[i + 1]
  BY HeadTailProperties
<1> QED BY <1>1, <1>2

LEMMA RestFits ==
    ASSUME NEW s, Orderly(s), s # <<>>, NEW e, NEW l, Carried(s, e, l)
    PROVE  Orderly(Tail(s)) /\ Carried(Tail(s), e, l)
<1>1. s \in Seq(Servers!Steps)
  BY DEF Orderly
<1> DEFINE t == Tail(s)
<1>2. /\ t \in Seq(Servers!Steps) /\ Len(t) \in Nat
      /\ \A i \in 1 .. Len(t) : i + 1 \in 1 .. Len(s) /\ t[i] = s[i + 1]
  BY <1>1, Rest
<1> HIDE DEF t
<1>3. Orderly(t)
  <2> SUFFICES ASSUME NEW i \in 1 .. Len(t), NEW j \in 1 .. Len(t), t[i][1] \in Giving
               PROVE  /\ t[j][1] \in Giving => t[j][2] = t[i][2]
                      /\ t[j][1] \in {"register", "login"} => j < i
                      /\ t[j][1] = "login" => t[j][2] # t[i][2]
    BY <1>2 DEF Orderly
  <2>1. t[i] = s[i + 1] /\ t[j] = s[j + 1] /\ i + 1 \in 1 .. Len(s) /\ j + 1 \in 1 .. Len(s)
    BY <1>2
  <2> QED BY <1>2, <2>1 DEF Orderly
<1>4. Carried(t, e, l)
  BY <1>2 DEF Carried
<1> QED BY <1>3, <1>4 DEF t

\* A promise is still one after the first step, unless that was to save the login.
LEMMA PromiseMoves ==
    ASSUME NEW s, Orderly(s), s # <<>>, NEW c, NEW d, NEW h, Promised(c, s, h),
           \A m \in Names : c[m] # Servers!None => d[m] # Servers!None,
           \A m \in Names : s[1] = <<"register", m>> => d[m] # Servers!None
    PROVE  \/ Promised(d, Tail(s), h)
           \/ s[1][1] = "login" /\ Host[s[1][2]] = h /\ c[s[1][2]] # Servers!None
<1>1. s \in Seq(Servers!Steps) /\ Len(s) \in Nat
  BY DEF Orderly
<1> DEFINE t == Tail(s)
<1>2. /\ Len(t) = Len(s) - 1
      /\ \A i \in 1 .. Len(t) : i + 1 \in 1 .. Len(s) /\ t[i] = s[i + 1]
  BY <1>1, Rest
<1> HIDE DEF t
<1>3. PICK k \in 1 .. Len(s) :
          /\ s[k][1] = "login" /\ Host[s[k][2]] = h
          /\ \/ c[s[k][2]] # Servers!None
             \/ \E j \in 1 .. k - 1 : s[j] = <<"register", s[k][2]>>
  BY DEF Promised
<1>4. CASE k = 1
  BY <1>3, <1>4
<1>5. CASE k # 1
  <2> DEFINE m == s[k][2]
  <2>1. k - 1 \in 1 .. Len(t) /\ t[k - 1] = s[k] /\ m \in Names
    BY <1>1, <1>2, <1>5 DEF Servers!Steps
  <2>2. CASE d[m] # Servers!None
    BY <1>3, <2>1, <2>2 DEF Promised, t
  <2>3. CASE d[m] = Servers!None
    <3>1. PICK j \in 1 .. k - 1 : s[j] = <<"register", m>>
      BY <1>3, <2>1, <2>3
    <3>2. j # 1
      BY <2>1, <2>3, <3>1
    <3>3. j - 1 \in 1 .. (k - 1) - 1 /\ j - 1 \in 1 .. Len(t) /\ t[j - 1] = s[j]
      BY <1>2, <2>1, <3>2
    <3> QED BY <1>3, <2>1, <3>1, <3>3 DEF Promised, t
  <2> QED BY <2>2, <2>3
<1> QED BY <1>4, <1>5

\* A step that takes no login away and saves none.
LEMMA KeptMoves ==
    ASSUME NEW s, Orderly(s), s # <<>>, s[1][1] # "login", NEW c, NEW d, NEW l, NEW ks,
           \A m \in Names : c[m] # Servers!None => d[m] # Servers!None,
           \A m \in Names : s[1] = <<"register", m>> => d[m] # Servers!None,
           LoginSafe(c, l, ks), KeptSafe(c, l, s, ks)
    PROVE  LoginSafe(d, l, ks) /\ KeptSafe(d, l, Tail(s), ks)
<1>1. s \in Seq(Servers!Steps)
  BY DEF Orderly
<1> DEFINE t == Tail(s)
<1>2. \A i \in 1 .. Len(t) : i + 1 \in 1 .. Len(s) /\ t[i] = s[i + 1]
  BY <1>1, Rest
<1>3. ASSUME NEW h, Promised(c, s, h) PROVE Promised(d, t, h)
  BY <1>3, PromiseMoves
<1> HIDE DEF t
<1>4. KeptSafe(d, l, t, ks)
  BY <1>2, <1>3 DEF KeptSafe, SafeWithout, Under
<1> QED BY <1>4 DEF LoginSafe, Under, t

\* A step that takes the login under one name away.
LEMMA GivesUp ==
    ASSUME NEW s, Orderly(s), s # <<>>, NEW n \in Names, s[1][1] \in Giving, s[1][2] = n,
           NEW c, NEW d, NEW l, NEW k, NEW ks,
           \A m \in Names \ {n} : Under(c, l, m) => Under(d, k, m),
           LoginSafe(c, l, ks), KeptSafe(c, l, s, ks)
    PROVE  LoginSafe(d, k, ks) /\ KeptSafe(d, k, Tail(s), ks)
<1>1. s \in Seq(Servers!Steps) /\ 1 \in 1 .. Len(s)
  BY Rest DEF Orderly
<1> DEFINE t == Tail(s)
<1>2. \A i \in 1 .. Len(t) : i + 1 \in 1 .. Len(s) /\ t[i] = s[i + 1]
  BY <1>1, Rest
<1> HIDE DEF t
<1>3. \A h : ~Promised(c, s, h)
  BY <1>1 DEF Orderly, Promised
<1>4. ASSUME NEW h \in ks, Host[n] = h PROVE SafeWithout(d, k, n, h)
  <2>1. SafeWithout(c, l, n, h)
    BY <1>1, <1>3, <1>4 DEF KeptSafe
  <2> QED BY <2>1 DEF SafeWithout
<1>5. LoginSafe(d, k, ks)
  <2> SUFFICES ASSUME NEW h \in ks PROVE \E m \in Names : Host[m] = h /\ Under(d, k, m)
    BY DEF LoginSafe
  <2>1. CASE Host[n] = h
    BY <1>4, <2>1 DEF SafeWithout
  <2>2. CASE Host[n] # h
    BY <2>2 DEF LoginSafe
  <2> QED BY <2>1, <2>2
<1>6. \A i \in 1 .. Len(t) : t[i][1] \in Giving => t[i][2] = n
  BY <1>1, <1>2 DEF Orderly
<1>7. KeptSafe(d, k, t, ks)
  BY <1>4, <1>6 DEF KeptSafe
<1> QED BY <1>5, <1>7 DEF t

\* The login is saved under one name.
LEMMA SavesLogin ==
    ASSUME NEW s, Orderly(s), s # <<>>, NEW n \in Names, s[1] = <<"login", n>>,
           NEW c, NEW l, NEW k, k[n] # Servers!None, NEW ks,
           \A m \in Names \ {n} : k[m] = l[m],
           LoginSafe(c, l, ks), KeptSafe(c, l, s, ks), NEW more \in SUBSET {Host[n]},
           more # {} => c[n] # Servers!None
    PROVE  LoginSafe(c, k, ks \cup more) /\ KeptSafe(c, k, Tail(s), ks \cup more)
<1>1. s \in Seq(Servers!Steps) /\ 1 \in 1 .. Len(s)
  BY Rest DEF Orderly
<1> DEFINE t == Tail(s)
<1>2. \A i \in 1 .. Len(t) : i + 1 \in 1 .. Len(s) /\ t[i] = s[i + 1]
  BY <1>1, Rest
<1>3. \A m \in Names : Under(c, l, m) => Under(c, k, m)
  BY DEF Under
<1>4. ASSUME NEW h, Promised(c, s, h)
      PROVE  Promised(c, t, h) \/ (Host[n] = h /\ c[n] # Servers!None)
  BY <1>4, PromiseMoves
<1> HIDE DEF t
<1>5. LoginSafe(c, k, ks \cup more)
  <2> SUFFICES ASSUME NEW h \in ks \cup more PROVE \E m \in Names : Host[m] = h /\ Under(c, k, m)
    BY DEF LoginSafe
  <2>1. CASE h \in ks
    BY <1>3, <2>1 DEF LoginSafe
  <2>2. CASE h \in more
    BY <2>2 DEF Under
  <2> QED BY <2>1, <2>2
<1>6. ASSUME NEW h \in ks \cup more, NEW i \in 1 .. Len(t), t[i][1] \in Giving,
             Host[t[i][2]] = h
      PROVE  SafeWithout(c, k, t[i][2], h) \/ Promised(c, t, h)
  <2> DEFINE o == t[i][2]
  <2>1. o # n
    BY <1>1, <1>2, <1>6 DEF Orderly
  <2>2. CASE Host[n] = h /\ c[n] # Servers!None
    BY <2>1, <2>2 DEF SafeWithout, Under
  <2>3. CASE ~(Host[n] = h /\ c[n] # Servers!None)
    <3>1. h \in ks
      BY <2>3
    <3>2. SafeWithout(c, l, o, h) \/ Promised(c, s, h)
      BY <1>2, <1>6, <3>1 DEF KeptSafe
    <3>3. SafeWithout(c, l, o, h) => SafeWithout(c, k, o, h)
      BY <1>3 DEF SafeWithout
    <3> QED BY <1>4, <2>3, <3>2, <3>3
  <2> QED BY <2>2, <2>3
<1> QED BY <1>5, <1>6 DEF KeptSafe, t

LEMMA NoJobFits ==
    ASSUME NEW c, NEW l, NEW ks
    PROVE  /\ EditFits(Servers!NoJob) /\ Servers!NoJob.todo = <<>>
           /\ KeptSafe(c, l, <<>>, ks)
<1>1. <<>> \in Seq(Servers!Steps) /\ 1 .. Len(<<>>) = {}
  BY EmptySeq
<1>2. Servers!NoJob.todo = <<>> /\ Servers!NoJob \in EditTypes
  BY <1>1 DEF Servers!NoJob, EditTypes
<1> QED BY <1>1, <1>2 DEF EditFits, Orderly, Carried, KeptSafe

\* A step of the edit is done, or its answer is lost.
LEMMA EditGoesOn ==
    ASSUME EditFits(edit), edit.todo # <<>>, NEW c, NEW l, NEW ks,
           KeptSafe(c, l, Tail(edit.todo), ks), Servers!ProceedOrEnd
    PROVE  EditFits(edit') /\ KeptSafe(c, l, edit'.todo, ks)
<1> DEFINE left == Tail(edit.todo)
<1>1. left \in Seq(Servers!Steps) /\ Orderly(left) /\ Carried(left, edit.entry, edit.login)
  BY RestFits DEF EditFits, Orderly
<1> HIDE DEF left
<1>2. CASE edit' = Servers!NoJob
  BY <1>2, NoJobFits
<1>3. CASE edit' = [edit EXCEPT !.todo = left] /\ left # <<>>
  <2>1. /\ edit' \in EditTypes /\ edit'.todo = left /\ edit'.entry = edit.entry
        /\ edit'.login = edit.login
    BY <1>1, <1>3 DEF EditFits, EditTypes
  <2> QED BY <1>1, <1>3, <2>1 DEF EditFits, left
<1> QED BY <1>2, <1>3 DEF Servers!ProceedOrEnd, Servers!Proceed, Servers!Stepped, left
-----------------------------------------------------------------------------
(* The plans of the edits *)

Making(n) == {<<"register", n>>, <<"amend", n>>, <<"upsert", n>>}
Leaving(n) == {<<"unregister", n>>, <<"drop", n>>, <<"forget", n>>}

\* A plan first makes what is under name n, and then leaves what is under name o.
LEMMA PlanFits ==
    ASSUME NEW n \in Names, NEW o \in Names, NEW u \in Seq(Making(n) \cup {<<"login", n>>}),
           NEW v \in Seq(Leaving(o)), n # o \/ u \in Seq(Making(n)) \/ v = <<>>,
           NEW e, NEW l, u = <<>> \/ (e \in Servers!Entries /\ Route(n, e)),
           l \in Servers!Logins \/ u \in Seq(Making(n)),
           NEW c, NEW k, NEW ks,
           \A h \in ks : Host[o] = h /\ v # <<>> =>
               SafeWithout(c, k, o, h) \/ Promised(c, u \o v, h)
    PROVE  Orderly(u \o v) /\ Carried(u \o v, e, l) /\ KeptSafe(c, k, u \o v, ks)
<1> DEFINE w == u \o v
<1>1. /\ \A i \in 1 .. Len(u) : u[i] \in Making(n) \cup {<<"login", n>>}
      /\ \A i \in 1 .. Len(v) : v[i] \in Leaving(o)
      /\ Len(u) \in Nat /\ Len(v) \in Nat
      /\ u \in Seq(Making(n)) => \A i \in 1 .. Len(u) : u[i] \in Making(n)
  BY ElementOfSeq, LenProperties
<1>2. u \in Seq(Servers!Steps) /\ v \in Seq(Servers!Steps)
  <2>1. /\ Making(n) \cup {<<"login", n>>} \subseteq Servers!Steps
        /\ Leaving(o) \subseteq Servers!Steps
    BY DEF Making, Leaving, Servers!Steps
  <2> QED BY <2>1
<1>3. /\ w \in Seq(Servers!Steps) /\ Len(w) = Len(u) + Len(v)
      /\ \A i \in 1 .. Len(w) : w[i] = IF i <= Len(u) THEN u[i] ELSE v[i - Len(u)]
  BY <1>2, ConcatProperties
<1> HIDE DEF w
<1>4. \A i \in 1 .. Len(w) :
          \/ i <= Len(u) /\ w[i] \in Making(n) \cup {<<"login", n>>}
               /\ (u \in Seq(Making(n)) => w[i] \in Making(n))
          \/ i > Len(u) /\ w[i] \in Leaving(o) /\ v # <<>>
  <2> SUFFICES ASSUME NEW i \in 1 .. Len(w), i > Len(u)
               PROVE  w[i] \in Leaving(o) /\ v # <<>>
    BY <1>1, <1>3
  <2>1. i - Len(u) \in 1 .. Len(v) /\ w[i] = v[i - Len(u)]
    BY <1>1, <1>3
  <2>2. Len(v) # 0
    BY <1>1, <2>1
  <2>3. v # <<>>
    BY <2>2
  <2> QED BY <1>1, <2>1, <2>3
<1>5. /\ \A x \in Making(n) : x[1] \in {"register", "amend", "upsert"} /\ x[2] = n
      /\ \A x \in Leaving(o) : x[1] \in {"unregister", "drop", "forget"} /\ x[2] = o
  BY DEF Making, Leaving
<1>6. Orderly(w)
  <2> SUFFICES ASSUME NEW i \in 1 .. Len(w), NEW j \in 1 .. Len(w), w[i][1] \in Giving
               PROVE  /\ w[j][1] \in Giving => w[j][2] = w[i][2]
                      /\ w[j][1] \in {"register", "login"} => j < i
                      /\ w[j][1] = "login" => w[j][2] # w[i][2]
    BY <1>3 DEF Orderly
  <2>1. i > Len(u) /\ w[i] \in Leaving(o) /\ v # <<>>
    BY <1>4, <1>5 DEF Giving
  <2>2. CASE w[j] \in Leaving(o)
    BY <1>5, <2>1, <2>2
  <2>3. CASE w[j] \in Making(n) /\ j <= Len(u)
    BY <1>1, <1>5, <2>1, <2>3 DEF Giving
  <2>4. CASE w[j] = <<"login", n>> /\ j <= Len(u)
    <3>1. u \notin Seq(Making(n))
      BY <1>4, <1>5, <2>4, <1>1
    <3> QED BY <1>1, <1>5, <2>1, <2>4, <3>1 DEF Giving
  <2> QED BY <1>4, <2>2, <2>3, <2>4
<1>7. Carried(w, e, l)
  <2> SUFFICES ASSUME NEW i \in 1 .. Len(w)
               PROVE  /\ w[i][1] = "register" => e \in Servers!Entries
                      /\ w[i][1] = "amend" => e \in Servers!Entries
                      /\ w[i][1] = "upsert" => e \in Servers!Entries /\ Route(w[i][2], e)
                      /\ w[i][1] = "login" => l \in Servers!Logins
    BY DEF Carried
  <2>1. CASE w[i] \in Leaving(o)
    BY <1>5, <2>1
  <2>2. CASE w[i] \notin Leaving(o)
    <3>1. i <= Len(u) /\ u # <<>>
      BY <1>1, <1>4, <2>2, EmptySeq
    <3>2. CASE w[i] \in Making(n)
      BY <1>5, <3>1, <3>2
    <3>3. CASE w[i] \notin Making(n)
      BY <1>4, <3>1, <3>3, <1>1
    <3> QED BY <3>2, <3>3
  <2> QED BY <2>1, <2>2
<1>8. KeptSafe(c, k, w, ks)
  <2> SUFFICES ASSUME NEW h \in ks, NEW i \in 1 .. Len(w), w[i][1] \in Giving,
                      Host[w[i][2]] = h
               PROVE  SafeWithout(c, k, w[i][2], h) \/ Promised(c, w, h)
    BY DEF KeptSafe
  <2>1. w[i][2] = o /\ v # <<>>
    BY <1>4, <1>5 DEF Giving
  <2> QED BY <2>1 DEF w
<1> QED BY <1>6, <1>7, <1>8 DEF w

\* What saves or clears a login, or leaves it alone.
LEMMA LoginSteps ==
    ASSUME NEW n \in Names
    PROVE  /\ Servers!LoginStep(n, Servers!None) = <<>>
           /\ Servers!LoginStep(n, Servers!Clear) = <<<<"forget", n>>>>
           /\ \A l \in Servers!Logins : Servers!LoginStep(n, l) = <<<<"login", n>>>>
BY Distinct DEF Servers!LoginStep

\* Short sequences, and two put together.
LEMMA Short ==
    ASSUME NEW S, NEW x \in S, NEW y \in S
    PROVE  /\ <<x>> \in Seq(S) /\ Len(<<x>>) = 1
           /\ <<x, y>> \in Seq(S) /\ Len(<<x, y>>) = 2
OBVIOUS

LEMMA Joined ==
    ASSUME NEW S, NEW u \in Seq(S), NEW v \in Seq(S)
    PROVE  /\ u \o v \in Seq(S) /\ Len(u) \in Nat /\ Len(v) \in Nat
           /\ Len(u \o v) = Len(u) + Len(v)
           /\ u # <<>> \/ v # <<>> => u \o v # <<>>
<1>1. /\ u \o v \in Seq(S) /\ Len(u) \in Nat /\ Len(v) \in Nat
      /\ Len(u \o v) = Len(u) + Len(v)
  BY ConcatProperties, LenProperties
<1>2. ASSUME u # <<>> \/ v # <<>> PROVE u \o v # <<>>
  <2>1. Len(u) # 0 \/ Len(v) # 0
    BY <1>2, EmptySeq
  <2>2. Len(u \o v) # 0
    BY <1>1, <2>1
  <2> QED BY <2>2
<1> QED BY <1>1, <1>2

\* What is registered or edited, and what is given up.
LEMMA MadeSteps ==
    ASSUME NEW n \in Names, NEW was, NEW route
    PROVE  /\ Servers!AddSteps(n, route, Servers!None) \in Seq(Making(n)) \ {<<>>}
           /\ Servers!EditSteps(n, was, route) \in Seq(Making(n)) \ {<<>>}
           /\ Servers!RemoveSteps(n, route) \in Seq(Leaving(n)) \ {<<>>}
<1>1. /\ <<"register", n>> \in Making(n) /\ <<"amend", n>> \in Making(n)
      /\ <<"upsert", n>> \in Making(n) /\ <<"unregister", n>> \in Leaving(n)
      /\ <<"drop", n>> \in Leaving(n) /\ <<"forget", n>> \in Leaving(n)
  BY DEF Making, Leaving
<1> DEFINE one == <<<<"upsert", n>>>>
           two == <<<<"register", n>>, <<"upsert", n>>>>
           amends == <<<<"amend", n>>, <<"upsert", n>>>>
           ends == <<<<"drop", n>>, <<"forget", n>>>>
           first == <<<<"unregister", n>>>>
           empty == <<>>
<1>2. /\ one \in Seq(Making(n)) \ {<<>>} /\ two \in Seq(Making(n)) \ {<<>>}
      /\ amends \in Seq(Making(n)) \ {<<>>}
      /\ ends \in Seq(Leaving(n)) \ {<<>>} /\ first \in Seq(Leaving(n)) \ {<<>>}
  <2>1. /\ one \in Seq(Making(n)) /\ two \in Seq(Making(n)) /\ amends \in Seq(Making(n))
        /\ ends \in Seq(Leaving(n)) /\ first \in Seq(Leaving(n))
    BY <1>1, Short
  <2>2. one # <<>> /\ two # <<>> /\ amends # <<>> /\ ends # <<>> /\ first # <<>>
    OBVIOUS
  <2> QED BY <2>1, <2>2
<1>3. empty \in Seq(Making(n)) /\ empty \in Seq(Leaving(n))
  BY EmptySeq
<1>4. \/ Servers!AddSteps(n, route, Servers!None) = empty \o one
      \/ Servers!AddSteps(n, route, Servers!None) = two \o empty
  BY LoginSteps DEF Servers!AddSteps
<1>5. Servers!EditSteps(n, was, route) \in {one, two, amends}
  BY DEF Servers!EditSteps
<1>6. Servers!RemoveSteps(n, route) \in {empty \o ends, first \o ends}
  BY DEF Servers!RemoveSteps
<1> HIDE DEF one, two, amends, ends, first
<1>7. /\ empty \o one \in Seq(Making(n)) \ {<<>>}
      /\ two \o empty \in Seq(Making(n)) \ {<<>>}
      /\ empty \o ends \in Seq(Leaving(n)) \ {<<>>}
      /\ first \o ends \in Seq(Leaving(n)) \ {<<>>}
  <2> HIDE DEF empty
  <2> QED BY <1>2, <1>3, Joined
<1> QED BY <1>2, <1>4, <1>5, <1>6, <1>7

\* The user asks for an edit.
LEMMA EditBegins ==
    ASSUME ServersInv, NEW n \in Names, NEW o \in Names,
           NEW u \in Seq(Making(n) \cup {<<"login", n>>}), NEW v \in Seq(Leaving(o)),
           n # o \/ u \in Seq(Making(n)) \/ v = <<>>,
           NEW e \in Servers!Entries \cup {Servers!None},
           NEW l \in Servers!Logins \cup {Servers!None, Servers!Clear},
           u = <<>> \/ (e \in Servers!Entries /\ Route(n, e)),
           l \in Servers!Logins \/ u \in Seq(Making(n)),
           u # <<>> \/ v # <<>>,
           kept' \subseteq kept,
           \A h \in kept' : Host[o] = h /\ v # <<>> =>
               SafeWithout(catalog, logins, o, h) \/ Promised(catalog, u \o v, h),
           Servers!Begin(u \o v, e, l)
    PROVE  ServersInv'
<1> DEFINE w == u \o v
<1>1. Orderly(w) /\ Carried(w, e, l) /\ KeptSafe(catalog, logins, w, kept')
  BY PlanFits
<1>2. w # <<>>
  <2>1. Len(u) \in Nat /\ Len(v) \in Nat /\ (Len(u) # 0 \/ Len(v) # 0)
    BY EmptySeq, LenProperties
  <2>2. Len(w) = Len(u) + Len(v)
    BY ConcatProperties
  <2>3. Len(w) # 0
    BY <2>1, <2>2
  <2> QED BY <2>3
<1> HIDE DEF w
<1>3. EditFits(edit') /\ edit'.todo = w
  BY <1>1, <1>2 DEF Servers!Begin, w, EditFits, EditTypes, Orderly
<1>4. LoginSafe(catalog, logins, kept')
  BY DEF ServersInv, LoginSafe
<1> QED BY <1>1, <1>3, <1>4, ServerTypes DEF ServersInv, Servers!Begin, w

LEMMA TypedIsLogin == Servers!Typed \in Servers!Logins
BY Zenon DEF Servers!Typed, Servers!Logins

\* The steps that make what is under a name, with its login before or after.
LEMMA WithLogin ==
    ASSUME NEW n \in Names, NEW u \in Seq(Making(n)), u # <<>>,
           NEW w \in {<<>>, <<<<"login", n>>>>}
    PROVE  /\ u \in Seq(Making(n) \cup {<<"login", n>>}) /\ w \in Seq(Making(n) \cup {<<"login", n>>})
           /\ u \o w \in Seq(Making(n) \cup {<<"login", n>>}) \ {<<>>}
           /\ w \o u \in Seq(Making(n) \cup {<<"login", n>>}) \ {<<>>}
<1> DEFINE All == Making(n) \cup {<<"login", n>>}
<1>1. u \in Seq(All)
  <2>1. Making(n) \subseteq All
    OBVIOUS
  <2> QED BY <2>1
<1>2. w \in Seq(All)
  <2>1. <<>> \in Seq(All)
    BY EmptySeq
  <2>2. <<<<"login", n>>>> \in Seq(All)
    BY Short
  <2> QED BY <2>1, <2>2
<1> HIDE DEF All
<1>3. u \o w \in Seq(All) \ {<<>>} /\ w \o u \in Seq(All) \ {<<>>}
  BY <1>1, <1>2, Joined
<1> QED BY <1>1, <1>2, <1>3 DEF All

\* An edit that gives nothing up.
LEMMA MakingBegins ==
    ASSUME ServersInv, NEW n \in Names,
           NEW u \in Seq(Making(n) \cup {<<"login", n>>}) \ {<<>>},
           NEW e \in Servers!Entries, Route(n, e),
           NEW l \in Servers!Logins \cup {Servers!None, Servers!Clear},
           l \in Servers!Logins \/ u \in Seq(Making(n)),
           kept' = kept, Servers!Begin(u, e, l)
    PROVE  ServersInv'
<1> DEFINE v == <<>>
<1>1. v \in Seq(Leaving(n)) /\ u \o v = u /\ v = <<>>
  BY ConcatEmptySeq, EmptySeq
<1>2. Servers!Begin(u \o v, e, l)
  BY <1>1
<1> HIDE DEF v
<1> QED BY <1>1, <1>2, EditBegins

LEMMA WithoutName ==
    ASSUME NEW n \in Names
    PROVE  /\ Servers!KeptWithout(n) \subseteq kept
           /\ \A h \in Servers!KeptWithout(n) : SafeWithout(catalog, logins, n, h)
BY DEF Servers!KeptWithout, Servers!LoginUnder, SafeWithout, Under

\* An edit by which the user gives a name or its login up.
LEMMA LeavingBegins ==
    ASSUME ServersInv, NEW n \in Names, NEW o \in Names, NEW u \in Seq(Making(n)),
           NEW v \in Seq(Leaving(o)) \ {<<>>},
           NEW e \in Servers!Entries \cup {Servers!None},
           NEW l \in Servers!Logins \cup {Servers!None, Servers!Clear},
           u = <<>> \/ (e \in Servers!Entries /\ Route(n, e)),
           kept' = Servers!KeptWithout(o), Servers!Begin(u \o v, e, l)
    PROVE  ServersInv'
<1>1. u \in Seq(Making(n) \cup {<<"login", n>>})
  <2>1. Making(n) \subseteq Making(n) \cup {<<"login", n>>}
    OBVIOUS
  <2> QED BY <2>1
<1> QED BY <1>1, WithoutName, EditBegins

LEMMA BeginsAdd ==
    ASSUME ServersInv, NEW n \in Names, NEW e \in Servers!Entries, e.route \in Servers!Routes(n),
           Servers!Add(n, e)
    PROVE  ServersInv'
<1>1. PICK l \in {Servers!None, Servers!Typed} :
          kept' = kept /\ Servers!Begin(Servers!AddSteps(n, e.route, l), e, l)
  BY DEF Servers!Add
<1> DEFINE u == Servers!AddSteps(n, e.route, l)
<1>2. Route(n, e)
  BY DEF Route, Servers!Routes
<1>3. /\ u \in Seq(Making(n) \cup {<<"login", n>>}) \ {<<>>}
      /\ l \in Servers!Logins \/ u \in Seq(Making(n))
  <2>1. CASE l = Servers!None
    <3>1. u \in Seq(Making(n)) \ {<<>>}
      BY <2>1, MadeSteps
    <3> QED BY <3>1, WithLogin
  <2>2. CASE l # Servers!None
    <3> DEFINE w == <<<<"login", n>>>>
               one == <<<<"upsert", n>>>>
               two == <<<<"register", n>>, <<"upsert", n>>>>
    <3>1. l \in Servers!Logins
      BY <1>1, <2>2, TypedIsLogin
    <3>2. u \in {w \o one, two \o w}
      BY <3>1, LoginSteps DEF Servers!AddSteps
    <3>3. one \in Seq(Making(n)) /\ one # <<>> /\ two \in Seq(Making(n)) /\ two # <<>>
      <4>1. <<"register", n>> \in Making(n) /\ <<"upsert", n>> \in Making(n)
        BY DEF Making
      <4> QED BY <4>1, Short
    <3>4. w \in {<<>>, <<<<"login", n>>>>}
      OBVIOUS
    <3> HIDE DEF u, w, one, two
    <3> QED BY <3>1, <3>2, <3>3, <3>4, WithLogin
  <2> QED BY <2>1, <2>2
<1>4. l \in Servers!Logins \cup {Servers!None, Servers!Clear}
  BY <1>1, TypedIsLogin
<1> HIDE DEF u
<1>5. Servers!Begin(u, e, l)
  BY <1>1 DEF u
<1> QED BY <1>1, <1>2, <1>3, <1>4, <1>5, MakingBegins

\* A change of an entry or of a login, and a clearing of one.
LEMMA BeginsEdit ==
    ASSUME ServersInv, NEW n \in Names, NEW root \in Roots, NEW route \in Servers!Routes(n),
           Servers!Edit(n, root, route)
    PROVE  ServersInv'
<1> DEFINE e == [mirror[n] EXCEPT !.root = root, !.route = route]
           u == Servers!EditSteps(n, mirror[n].route, route)
<1>1. PICK l \in {Servers!None, Servers!Typed, Servers!Clear} :
          /\ kept' = IF l = Servers!Clear THEN Servers!KeptWithout(n) ELSE kept
          /\ Servers!Begin(u \o Servers!LoginStep(n, l), e, l)
  BY DEF Servers!Edit
<1>2. e \in Servers!Entries /\ Route(n, e)
  <2>1. mirror[n] \in Servers!Entries
    BY DEF Servers!Edit, Servers!Known, ServersInv, Mirrors
  <2>2. route \in {"vlab", "direct"} /\ (Host[n] \in VlabHosts => route = "vlab")
    BY DEF Servers!Routes
  <2> QED BY <2>1, <2>2 DEF Route, Servers!Entries
<1>3. u \in Seq(Making(n)) \ {<<>>}
  BY MadeSteps
<1>4. l \in Servers!Logins \cup {Servers!None, Servers!Clear}
  BY <1>1, TypedIsLogin
<1> HIDE DEF e, u
<1>5. CASE l = Servers!Clear
  <2> DEFINE v == <<<<"forget", n>>>>
  <2>1. v \in Seq(Leaving(n)) \ {<<>>}
    <3>1. <<"forget", n>> \in Leaving(n)
      BY DEF Leaving
    <3> QED BY <3>1, Short
  <2>2. Servers!LoginStep(n, l) = v
    BY <1>5, LoginSteps
  <2> HIDE DEF v
  <2> QED BY <1>1, <1>2, <1>3, <1>4, <1>5, <2>1, <2>2, LeavingBegins
<1>6. CASE l # Servers!Clear
  <2> DEFINE w == Servers!LoginStep(n, l)
  <2>1. w \in {<<>>, <<<<"login", n>>>>} /\ (l \in Servers!Logins \/ w = <<>>)
    BY <1>1, <1>6, TypedIsLogin, LoginSteps
  <2> HIDE DEF w
  <2>2. u \o w \in Seq(Making(n) \cup {<<"login", n>>}) \ {<<>>}
    BY <1>3, <2>1, WithLogin
  <2>3. l \in Servers!Logins \/ u \o w \in Seq(Making(n))
    <3>1. w = <<>> => u \o w = u
      BY <1>3, ConcatEmptySeq
    <3> QED BY <1>3, <2>1, <3>1
  <2>4. Servers!Begin(u \o w, e, l)
    BY <1>1 DEF w
  <2> QED BY <1>1, <1>2, <1>4, <1>6, <2>2, <2>3, <2>4, MakingBegins
<1> QED BY <1>5, <1>6

LEMMA BeginsChangeLogin ==
    ASSUME ServersInv, NEW n \in Names, Servers!ChangeLogin(n)
    PROVE  ServersInv'
<1>1. PICK l \in {Servers!Typed, Servers!Clear} :
          /\ kept' = IF l = Servers!Clear THEN Servers!KeptWithout(n) ELSE kept
          /\ Servers!Begin(Servers!LoginStep(n, l), mirror[n], l)
  BY DEF Servers!ChangeLogin
<1>2. mirror[n] \in Servers!Entries /\ Route(n, mirror[n])
  BY DEF Servers!ChangeLogin, Servers!Known, ServersInv, Mirrors
<1>3. CASE l = Servers!Clear
  <2> DEFINE v == <<<<"forget", n>>>>
             u == <<>>
  <2>1. v \in Seq(Leaving(n)) \ {<<>>}
    <3>1. <<"forget", n>> \in Leaving(n)
      BY DEF Leaving
    <3> QED BY <3>1, Short
  <2>2. Servers!LoginStep(n, l) = v
    BY <1>3, LoginSteps
  <2> HIDE DEF v
  <2>3. u \in Seq(Making(n)) /\ u \o v = v
    BY <2>1, EmptySeq, ConcatEmptySeq
  <2>4. Servers!Begin(u \o v, mirror[n], l)
    BY <1>1, <2>2, <2>3
  <2> HIDE DEF u
  <2> QED BY <1>1, <1>2, <1>3, <2>1, <2>3, <2>4, LeavingBegins
<1>4. CASE l # Servers!Clear
  <2> DEFINE w == <<<<"login", n>>>>
  <2>1. l \in Servers!Logins /\ Servers!LoginStep(n, l) = w
    BY <1>1, <1>4, TypedIsLogin, LoginSteps
  <2>2. w \in Seq(Making(n) \cup {<<"login", n>>}) \ {<<>>}
    BY Short
  <2> HIDE DEF w
  <2> QED BY <1>1, <1>2, <1>4, <2>1, <2>2, MakingBegins
<1> QED BY <1>3, <1>4

LEMMA BeginsRemove ==
    ASSUME ServersInv, NEW n \in Names, Servers!Remove(n)
    PROVE  ServersInv'
<1> DEFINE v == Servers!RemoveSteps(n, mirror[n].route)
           u == <<>>
<1>1. v \in Seq(Leaving(n)) \ {<<>>}
  BY MadeSteps
<1>2. kept' = Servers!KeptWithout(n) /\ Servers!Begin(v, Servers!None, Servers!None)
  BY DEF Servers!Remove
<1> HIDE DEF v
<1>3. u \in Seq(Making(n)) /\ u \o v = v /\ u = <<>>
  BY <1>1, EmptySeq, ConcatEmptySeq
<1>4. Servers!Begin(u \o v, Servers!None, Servers!None)
  BY <1>2, <1>3
<1> HIDE DEF u
<1> QED BY <1>1, <1>2, <1>3, <1>4, LeavingBegins

\* The login that is being saved under the new name keeps the host of a rename.
LEMMA Promises ==
    ASSUME NEW n \in Names, NEW o \in Names, NEW v \in Seq(Leaving(o)), NEW c,
           NEW u, u = Servers!AddSteps(n, "vlab", Servers!None) \o <<<<"login", n>>>>
    PROVE  Promised(c, u \o v, Host[n])
<1> DEFINE two == <<<<"register", n>>, <<"upsert", n>>>>
           w == <<<<"login", n>>>>
           All == Servers!Steps
<1>1. two \in Seq(All) /\ w \in Seq(All) /\ Len(two) = 2 /\ Len(w) = 1
  <2>1. {<<"register", n>>, <<"upsert", n>>, <<"login", n>>} \subseteq All
    BY DEF Servers!Steps
  <2> QED BY <2>1, Short
<1>2. v \in Seq(All)
  <2>1. Leaving(o) \subseteq All
    BY DEF Leaving, Servers!Steps
  <2> QED BY <2>1
<1>3. two[1] = <<"register", n>> /\ w[1] = <<"login", n>>
  OBVIOUS
<1>4. u = two \o w
  <2>1. Servers!AddSteps(n, "vlab", Servers!None) = two \o <<>>
    BY LoginSteps DEF Servers!AddSteps
  <2>2. two \o <<>> = two
    BY <1>1, ConcatEmptySeq
  <2> QED BY <2>1, <2>2
<1> HIDE DEF two, w, All
<1>5. u \in Seq(All) /\ Len(u) = 3 /\ u[1] = <<"register", n>> /\ u[3] = <<"login", n>>
  <2>1. /\ two \o w \in Seq(All) /\ Len(two \o w) = Len(two) + Len(w)
        /\ \A i \in 1 .. Len(two) + Len(w) :
              (two \o w)[i] = IF i <= Len(two) THEN two[i] ELSE w[i - Len(two)]
    BY <1>1, ConcatProperties
  <2>2. Len(two) + Len(w) = 3 /\ 1 \in 1 .. 3 /\ 3 \in 1 .. 3 /\ 3 - Len(two) = 1
    BY <1>1
  <2>3. Len(u) = 3 /\ u \in Seq(All)
    BY <1>4, <2>1, <2>2
  <2>4. u[1] = two[1]
    BY <1>1, <1>4, <2>1, <2>2
  <2>5. u[3] = w[1]
    BY <1>1, <1>4, <2>1, <2>2
  <2> QED BY <1>3, <2>3, <2>4, <2>5
<1>6. /\ Len(u \o v) = Len(u) + Len(v) /\ Len(v) \in Nat
      /\ \A i \in 1 .. Len(u) + Len(v) :
            (u \o v)[i] = IF i <= Len(u) THEN u[i] ELSE v[i - Len(u)]
  BY <1>2, <1>5, ConcatProperties, LenProperties
<1> DEFINE all == u \o v
<1>7. 3 \in 1 .. Len(all) /\ all[3] = <<"login", n>> /\ all[1] = <<"register", n>>
  BY <1>5, <1>6
<1> HIDE DEF all
<1>8. Promised(c, all, Host[n])
  BY <1>7 DEF Promised
<1> QED BY <1>8 DEF all

LEMMA BeginsRename ==
    ASSUME ServersInv, NEW n \in Names, NEW o \in Names, Servers!Rename(o, n)
    PROVE  ServersInv'
<1> DEFINE e == mirror[o]
           adds == Servers!AddSteps(n, e.route, Servers!None)
           v == Servers!RemoveSteps(o, e.route)
<1>1. n # o /\ Host[n] = Host[o] /\ e \in Servers!Entries /\ Route(n, e)
  BY DEF Servers!Rename, Servers!Known, ServersInv, Mirrors, Route
<1>2. adds \in Seq(Making(n)) \ {<<>>} /\ v \in Seq(Leaving(o)) \ {<<>>}
  BY MadeSteps
<1>3. ASSUME NEW l, Servers!Begin(Servers!RenameSteps(o, n, mirror[o].route, l), mirror[o], l)
      PROVE  Servers!Begin((adds \o Servers!LoginStep(n, l)) \o v, e, l)
  BY <1>3 DEF Servers!RenameSteps
<1>4. adds \o Servers!LoginStep(n, Servers!None) = adds
  BY <1>2, LoginSteps, ConcatEmptySeq
<1>5. CASE /\ kept' = Servers!KeptWithout(o)
           /\ Servers!Begin(Servers!RenameSteps(o, n, mirror[o].route, Servers!None), mirror[o],
                            Servers!None)
  <2>1. Servers!Begin(adds \o v, e, Servers!None)
    BY <1>3, <1>4, <1>5
  <2> HIDE DEF e, adds, v
  <2> QED BY <1>1, <1>2, <1>5, <2>1, LeavingBegins
<1>6. ASSUME kept' = kept, NEW l \in {logins[o], Servers!Typed},
             Servers!Begin(Servers!RenameSteps(o, n, mirror[o].route, l), mirror[o], l)
      PROVE  ServersInv'
  <2> DEFINE w == Servers!LoginStep(n, l)
             u == adds \o w
  <2>1. l \in Servers!Logins \cup {Servers!None}
    BY <1>6, TypedIsLogin DEF ServersInv
  <2>2. Servers!Begin(u \o v, e, l)
    BY <1>3, <1>6
  <2>3. w \in {<<>>, <<<<"login", n>>>>} /\ (l \in Servers!Logins \/ u = adds)
    BY <2>1, <1>4, LoginSteps
  <2>4. u \in Seq(Making(n) \cup {<<"login", n>>}) \ {<<>>}
    <3> HIDE DEF w, adds
    <3> QED BY <1>2, <2>3, WithLogin
  <2>5. ASSUME NEW h \in kept, Host[o] = h
        PROVE  SafeWithout(catalog, logins, o, h) \/ Promised(catalog, u \o v, h)
    <3>1. CASE l \in Servers!Logins
      <4>1. e.route = "vlab"
        BY <1>1, <2>5, Distinct DEF ServersInv, Route
      <4>2. u = Servers!AddSteps(n, "vlab", Servers!None) \o <<<<"login", n>>>>
        BY <3>1, <4>1, LoginSteps
      <4> HIDE DEF u, v
      <4>3. Promised(catalog, u \o v, Host[n])
        BY <1>2, <4>2, Promises
      <4> QED BY <1>1, <2>5, <4>3
    <3>2. CASE l \notin Servers!Logins
      <4>1. logins[o] = Servers!None
        BY <1>6, <2>1, <3>2, TypedIsLogin
      <4> QED BY <2>5, <4>1 DEF ServersInv, LoginSafe, SafeWithout, Under
    <3> QED BY <3>1, <3>2
  <2> HIDE DEF e, adds, u, v, w
  <2> QED BY <1>1, <1>2, <1>6, <2>1, <2>2, <2>3, <2>4, <2>5, EditBegins
<1> QED BY <1>5, <1>6 DEF Servers!Rename
-----------------------------------------------------------------------------
(* The steps and the pulls *)

LEMMA MergeFits ==
    ASSUME NEW here \in Mirrors, NEW there \in Catalogs
    PROVE  Servers!Merged(here, there) \in Mirrors
<1> DEFINE merged == Servers!Merged(here, there)
<1>1. ASSUME NEW n \in Names
      PROVE  /\ merged[n] \in Servers!Entries \cup {Servers!None} /\ Route(n, merged[n])
  <2>1. merged[n] = IF there[n] # Servers!None
                    THEN [root |-> there[n].root,
                          route |-> IF here[n] = Servers!None THEN "vlab" ELSE here[n].route]
                    ELSE IF Servers!OnVlab(here[n]) THEN Servers!None ELSE here[n]
    BY DEF Servers!Merged
  <2>2. here[n] \in Servers!Entries \cup {Servers!None} /\ Route(n, here[n])
    BY DEF Mirrors
  <2> HIDE DEF merged
  <2>3. CASE there[n] # Servers!None
    <3>1. there[n].root \in Roots
      BY <2>3 DEF Catalogs, Servers!Registered
    <3> QED BY <2>1, <2>2, <2>3, <3>1 DEF Route, Servers!Entries
  <2>4. CASE there[n] = Servers!None
    BY <2>1, <2>2, <2>4 DEF Route
  <2> QED BY <2>3, <2>4
<1>2. merged = [n \in Names |-> merged[n]]
  BY DEF Servers!Merged
<1> HIDE DEF merged
<1>3. merged \in Mirrors
  BY <1>1, <1>2 DEF Mirrors
<1> QED BY <1>3 DEF merged

LEMMA Pulls ==
    ASSUME ServersInv, Servers!Ask \/ Servers!Answer \/ Servers!NoAnswer \/ Servers!SavePull
    PROVE  ServersInv'
<1>1. pull' \in PullTypes
  <2>1. CASE Servers!Ask
    BY <2>1 DEF Servers!Ask, ServersInv, PullTypes
  <2>2. CASE Servers!Answer
    <3>1. pull.local \in Mirrors
      BY <2>2 DEF Servers!Answer, ServersInv, PullTypes, Servers!NoPull
    <3> QED BY <2>2, <3>1 DEF Servers!Answer, ServersInv, PullTypes
  <2>3. CASE Servers!NoAnswer \/ Servers!SavePull
    BY <2>3 DEF Servers!NoAnswer, Servers!SavePull, PullTypes
  <2> QED BY <2>1, <2>2, <2>3
<1>2. mirror' \in Mirrors
  <2>1. CASE Servers!SavePull
    <3>1. pull.local \in Mirrors /\ pull.remote \in Catalogs
      BY <2>1 DEF Servers!SavePull, ServersInv, PullTypes, Servers!NoPull
    <3> QED BY <2>1, <3>1, MergeFits DEF Servers!SavePull
  <2>2. CASE ~Servers!SavePull
    BY <2>2 DEF Servers!Ask, Servers!Answer, Servers!NoAnswer, ServersInv
  <2> QED BY <2>1, <2>2
<1>3. UNCHANGED <<catalog, logins, edit, kept, requests>>
  BY DEF Servers!Ask, Servers!Answer, Servers!NoAnswer, Servers!SavePull
<1> QED BY <1>1, <1>2, <1>3 DEF ServersInv

LEMMA Steps ==
    ASSUME ServersInv, NEW n \in Names, Servers!Step(n)
    PROVE  ServersInv'
<1> DEFINE s == edit.todo
<1>1. EditFits(edit) /\ s # <<>> /\ Orderly(s) /\ Carried(s, edit.entry, edit.login)
  BY DEF Servers!Step, Servers!Register, Servers!Amend, Servers!Unregister, Servers!Upsert,
         Servers!StoreLogin, Servers!Drop, Servers!Forget, Servers!Doing, ServersInv, EditFits
<1>2. ASSUME NEW name, Servers!Doing(name, n) PROVE s[1] = <<name, n>> /\ 1 \in 1 .. Len(s)
  BY <1>1, <1>2, Rest DEF Servers!Doing, Orderly
<1>3. ASSUME KeptSafe(catalog', logins', Tail(s), kept'), LoginSafe(catalog', logins', kept'),
             Servers!ProceedOrEnd, catalog' \in Catalogs, mirror' \in Mirrors,
             logins' \in [Names -> Servers!Logins \cup {Servers!None}],
             kept' \subseteq VlabHosts, UNCHANGED <<pull, requests>>
      PROVE  ServersInv'
  <2>1. EditFits(edit') /\ KeptSafe(catalog', logins', edit'.todo, kept')
    BY <1>1, <1>3, EditGoesOn
  <2> QED BY <1>3, <2>1 DEF ServersInv
<1>4. ASSUME \A m \in Names : catalog[m] # Servers!None => catalog'[m] # Servers!None,
             \A m \in Names : s[1] = <<"register", m>> => catalog'[m] # Servers!None,
             s[1][1] # "login", UNCHANGED <<logins, kept>>
      PROVE  KeptSafe(catalog', logins', Tail(s), kept') /\ LoginSafe(catalog', logins', kept')
  BY <1>1, <1>4, KeptMoves DEF ServersInv
<1>5. CASE Servers!Register(n)
  <2>1. edit.entry.root \in Roots
    BY <1>1, <1>2, <1>5 DEF Servers!Register, Carried, Servers!Entries
  <2>2. catalog' \in Catalogs /\ catalog'[n] # Servers!None
    BY <1>5, <2>1, Distinct DEF Servers!Register, ServersInv, Catalogs, Servers!Registered
  <2>3. \A m \in Names : s[1] = <<"register", m>> => m = n
    BY <1>2, <1>5 DEF Servers!Register
  <2>4. \A m \in Names : catalog[m] # Servers!None => catalog'[m] # Servers!None
    BY <1>5, <2>2 DEF Servers!Register, ServersInv, Catalogs
  <2>5. s[1][1] # "login"
    BY <1>2, <1>5 DEF Servers!Register
  <2> QED BY <1>3, <1>4, <1>5, <2>2, <2>3, <2>4, <2>5 DEF Servers!Register, ServersInv
<1>6. CASE Servers!Amend(n)
  <2>1. edit.entry.root \in Roots
    BY <1>1, <1>2, <1>6 DEF Servers!Amend, Carried, Servers!Entries
  <2>2. catalog' \in Catalogs /\ catalog'[n] # Servers!None
    BY <1>6, <2>1, Distinct DEF Servers!Amend, ServersInv, Catalogs, Servers!Registered
  <2>3. \A m \in Names : catalog[m] # Servers!None => catalog'[m] # Servers!None
    BY <1>6, <2>2 DEF Servers!Amend, ServersInv, Catalogs
  <2>4. s[1][1] # "login" /\ \A m \in Names : s[1] # <<"register", m>>
    BY <1>2, <1>6 DEF Servers!Amend
  <2> QED BY <1>3, <1>4, <1>6, <2>2, <2>3, <2>4 DEF Servers!Amend, ServersInv
<1>7. CASE Servers!Upsert(n)
  <2>1. edit.entry \in Servers!Entries /\ Route(n, edit.entry)
    BY <1>1, <1>2, <1>7 DEF Servers!Upsert, Carried
  <2>2. mirror' \in Mirrors
    BY <1>7, <2>1 DEF Servers!Upsert, ServersInv, Mirrors
  <2>3. s[1][1] # "login" /\ \A m \in Names : s[1] # <<"register", m>>
    BY <1>2, <1>7 DEF Servers!Upsert
  <2> QED BY <1>3, <1>4, <1>7, <2>2, <2>3
          DEF Servers!Upsert, Servers!ProceedOrEnd, ServersInv
<1>8. CASE Servers!Drop(n)
  <2>1. mirror' \in Mirrors
    BY <1>8 DEF Servers!Drop, ServersInv, Mirrors, Route
  <2>2. s[1][1] # "login" /\ \A m \in Names : s[1] # <<"register", m>>
    BY <1>2, <1>8 DEF Servers!Drop
  <2> QED BY <1>3, <1>4, <1>8, <2>1, <2>2 DEF Servers!Drop, Servers!ProceedOrEnd, ServersInv
<1>9. CASE Servers!Unregister(n) \/ Servers!Forget(n)
  <2>1. s[1][1] \in Giving /\ s[1][2] = n
    BY <1>2, <1>9 DEF Servers!Unregister, Servers!Forget, Giving
  <2>2. \A m \in Names \ {n} : catalog'[m] = catalog[m] /\ logins'[m] = logins[m]
    BY <1>9 DEF Servers!Unregister, Servers!Forget, ServersInv, Catalogs
  <2>3. catalog' \in Catalogs /\ logins' \in [Names -> Servers!Logins \cup {Servers!None}]
    BY <1>9 DEF Servers!Unregister, Servers!Forget, ServersInv, Catalogs
  <2>4. UNCHANGED <<mirror, kept, pull, requests>> /\ Servers!ProceedOrEnd
    BY <1>9 DEF Servers!Unregister, Servers!Forget, Servers!ProceedOrEnd
  <2>5. KeptSafe(catalog', logins', Tail(s), kept) /\ LoginSafe(catalog', logins', kept)
    <3>1. \A m \in Names \ {n} :
              Under(catalog, logins, m) => Under(catalog', logins', m)
      BY <2>2 DEF Under
    <3> QED BY <1>1, <2>1, <3>1, GivesUp DEF ServersInv
  <2> QED BY <1>3, <2>3, <2>4, <2>5 DEF ServersInv
<1>10. CASE Servers!StoreLogin(n)
  <2> DEFINE more == IF catalog[n] # Servers!None THEN {Host[n]} \cap VlabHosts ELSE {}
  <2>1. s[1] = <<"login", n>> /\ edit.login \in Servers!Logins
    BY <1>1, <1>2, <1>10 DEF Servers!StoreLogin, Carried
  <2>2. [edit.login EXCEPT !.due = FALSE] \in Servers!Logins
    BY Zenon, <2>1, TypedIsLogin DEF Servers!Logins
  <2>3. /\ logins' \in [Names -> Servers!Logins \cup {Servers!None}]
        /\ logins'[n] # Servers!None /\ \A m \in Names \ {n} : logins'[m] = logins[m]
    BY <1>10, <2>2, Distinct DEF Servers!StoreLogin, ServersInv
  <2>4. kept' = kept \cup more /\ more \in SUBSET {Host[n]} /\ more \subseteq VlabHosts
    BY <1>10 DEF Servers!StoreLogin
  <2>5. more # {} => catalog[n] # Servers!None
    OBVIOUS
  <2> HIDE DEF more
  <2>6. KeptSafe(catalog, logins', Tail(s), kept \cup more) /\ LoginSafe(catalog, logins', kept \cup more)
    BY <1>1, <2>1, <2>3, <2>4, <2>5, SavesLogin DEF ServersInv
  <2>7. UNCHANGED <<catalog, mirror, pull, requests>> /\ Servers!ProceedOrEnd
    BY <1>10 DEF Servers!StoreLogin, Servers!ProceedOrEnd
  <2> QED BY <1>3, <2>3, <2>4, <2>6, <2>7 DEF ServersInv
<1> QED BY <1>5, <1>6, <1>7, <1>8, <1>9, <1>10 DEF Servers!Step

\* What happens beside the steps of an edit.
LEMMA Aside ==
    ASSUME ServersInv,
           Servers!GiveUp \/ \E n \in Names : Servers!Confirm(n) \/ Servers!Expire(n)
    PROVE  ServersInv'
<1>1. CASE Servers!GiveUp
  BY <1>1, NoJobFits DEF Servers!GiveUp, ServersInv
<1>2. ASSUME NEW n \in Names, Servers!Confirm(n) \/ Servers!Expire(n) PROVE ServersInv'
  <2>1. PICK d \in BOOLEAN :
            /\ logins[n] # Servers!None /\ logins' = [logins EXCEPT ![n].due = d]
            /\ UNCHANGED <<catalog, mirror, edit, pull, kept, requests>>
    BY <1>2 DEF Servers!Confirm, Servers!Expire
  <2>2. logins[n] \in Servers!Logins
    BY <2>1 DEF ServersInv
  <2>3. [logins[n] EXCEPT !.due = d] \in Servers!Logins
    BY Zenon, <2>1, <2>2 DEF Servers!Logins
  <2>4. /\ logins' \in [Names -> Servers!Logins \cup {Servers!None}]
        /\ logins'[n] # Servers!None /\ \A m \in Names \ {n} : logins'[m] = logins[m]
    BY <2>1, <2>3, Distinct DEF ServersInv
  <2>5. \A m \in Names : Under(catalog, logins, m) <=> Under(catalog, logins', m)
    BY <2>1, <2>4 DEF Under
  <2>6. LoginSafe(catalog, logins', kept)
    BY <2>5 DEF ServersInv, LoginSafe
  <2>7. KeptSafe(catalog, logins', edit.todo, kept)
    BY <2>5 DEF ServersInv, KeptSafe, SafeWithout
  <2> QED BY <2>1, <2>4, <2>6, <2>7 DEF ServersInv
<1> QED BY <1>1, <1>2
-----------------------------------------------------------------------------
(* server_edit and its steps, in whatever order with the pulls: every host behind Vlab *)
(* whose login was saved can be logged in to, or the plan of the edit saves it first.  *)
THEOREM ServersInvariant == Servers!Spec => []ServersInv
<1>1. Servers!Init => ServersInv
  <2> SUFFICES ASSUME Servers!Init PROVE ServersInv
    OBVIOUS
  <2>1. /\ catalog \in Catalogs /\ mirror \in Mirrors
        /\ logins \in [Names -> Servers!Logins \cup {Servers!None}]
        /\ pull \in PullTypes /\ kept = {} /\ requests \in 0 .. MaxRequests
    BY ServerTypes DEF Servers!Init, Catalogs, Mirrors, Route, PullTypes
  <2>2. EditFits(edit)
    BY NoJobFits DEF Servers!Init
  <2> QED BY <2>1, <2>2 DEF ServersInv, LoginSafe, KeptSafe
<1>2. ServersInv /\ [Servers!Next]_serverVars => ServersInv'
  <2> SUFFICES ASSUME ServersInv, [Servers!Next]_serverVars PROVE ServersInv'
    OBVIOUS
  <2>1. CASE UNCHANGED serverVars
    BY <2>1 DEF serverVars, ServersInv
  <2>2. CASE Servers!GiveUp \/ \E n \in Names : Servers!Confirm(n) \/ Servers!Expire(n)
    BY <2>2, Aside
  <2>3. CASE Servers!Ask \/ Servers!Answer \/ Servers!NoAnswer \/ Servers!SavePull
    BY <2>3, Pulls
  <2>4. ASSUME NEW n \in Names, Servers!Step(n) PROVE ServersInv'
    BY <2>4, Steps
  <2>5. ASSUME NEW n \in Names, NEW e \in Servers!Entries, e.route \in Servers!Routes(n),
               Servers!Add(n, e)
        PROVE  ServersInv'
    BY <2>5, BeginsAdd
  <2>6. ASSUME NEW n \in Names, NEW root \in Roots, NEW route \in Servers!Routes(n),
               Servers!Edit(n, root, route)
        PROVE  ServersInv'
    BY <2>6, BeginsEdit
  <2>7. ASSUME NEW n \in Names, NEW m \in Names, Servers!Rename(n, m) PROVE ServersInv'
    BY <2>7, BeginsRename
  <2>8. ASSUME NEW n \in Names, Servers!ChangeLogin(n) \/ Servers!Remove(n) PROVE ServersInv'
    BY <2>8, BeginsChangeLogin, BeginsRemove
  <2> QED BY <2>1, <2>2, <2>3, <2>4, <2>5, <2>6, <2>7, <2>8 DEF Servers!Next
<1> QED BY <1>1, <1>2, PTL DEF Servers!Spec, Servers!vars, serverVars

(* Every variable keeps its shape, and no step is left behind. *)
THEOREM ServersTypeCorrect == Servers!Spec => []Servers!TypeOK
<1>1. ServersInv => Servers!TypeOK
  <2> SUFFICES ASSUME ServersInv PROVE Servers!TypeOK
    OBVIOUS
  <2>1. \A i \in 1 .. Len(edit.todo) : edit.todo[i] \in Servers!Steps
    BY DEF ServersInv, EditFits, Orderly
  <2>2. pull.at \in {"idle", "asked", "answered"}
    BY DEF ServersInv, PullTypes, Servers!NoPull
  <2> QED BY <2>1, <2>2 DEF ServersInv, Servers!TypeOK, Catalogs, Mirrors, EditFits
<1> QED BY <1>1, ServersInvariant, PTL

(* A host behind Vlab whose login was saved can be logged in to under one of its names  *)
(* until the user removes it or clears the login: no rename, edit or refresh that stops *)
(* halfway loses the server or its login.                                               *)
THEOREM KeepsLogins == Servers!Spec => []LoginKept
<1>1. ServersInv => LoginKept
  BY DEF ServersInv, LoginSafe, Under, LoginKept, Servers!LoginKept, Servers!LoginUnder
<1> QED BY <1>1, ServersInvariant, PTL
===============================================================================
