--------------------------- MODULE SpouseTransfer ---------------------------
(***************************************************************************)
(* Added Paternity Leave comes out of the linked wife's Maternity Leave    *)
(* (LeaveBalancesService.grant, EmployeesService.syncSpouseLinks).  A link *)
(* is saved with the employee's record first and followed by a transaction *)
(* that links the spouse back and moves the days; grants have transactions *)
(* of their own, and the server fills in missing back-links when it        *)
(* starts.  One leave year.                                                *)
(*                                                                         *)
(* The moves of days inside one transaction only add up, so a transaction  *)
(* is a chain of records <<link, maternity>>.                              *)
(***************************************************************************)
EXTENDS Integers, FiniteSets, Functions

CONSTANTS
  Men, Women, NoOne,
  MaternityDays,   \* the Maternity type's defaultDays, everyone's at first
  Grants,          \* the days of Added Paternity an admin gives a man
  Admins,          \* admins saving or granting at the same time
  Undisturbed      \* bound, or FALSE: the server stops between calls only, and
                   \* calls wait for its backfill

People == Men \cup Women

ASSUME SpouseAssumption ==
  /\ Men \cap Women = {} /\ NoOne \notin People
  /\ MaternityDays \in Nat /\ Grants \subseteq Nat /\ Undisturbed \in BOOLEAN

VARIABLES
  link,        \* Employee.spouseEmployeeId
  added,       \* earnedDays of each man's Added Paternity
  maternity,   \* earnedDays of each woman's Maternity
  admin,       \* where each admin's call stands
  starting     \* the backfill of a restarted server is still to run

vars == <<link, added, maternity, admin, starting>>

Idle == [pc |-> "idle"]
Opposite(p) == IF p \in Men THEN Women ELSE Men

-----------------------------------------------------------------------------
(***************************************************************************)
(* The transaction's steps, from one record of link and maternity to the   *)
(* next.                                                                   *)
(***************************************************************************)
\* shiftMaternityDaysFromSpouse
Shifted(db, wife, days) ==
  IF wife = NoOne THEN db ELSE [db EXCEPT !.maternity[wife] = @ - days]

\* Mutant: the days are not handed back to the former wife.
MovedForward(db, p, from, to) ==
  IF p \in Women \/ from = to THEN db ELSE Shifted(db, to, added[p])

\* movePaternityTransfer
Moved(db, p, from, to) ==
  IF p \in Women \/ from = to THEN db
  ELSE Shifted(Shifted(db, from, -added[p]), to, added[p])

\* relinkSpouse
Relinked(db, p, to) ==
  Moved([db EXCEPT !.link[p] = to], p, db.link[p], to)

\* The link back from someone who no longer is p's spouse is cleared.
Unlinked(db, former, p) ==
  IF former # NoOne /\ db.link[former] = p THEN Relinked(db, former, NoOne) ELSE db

\* Mutant: whoever the new spouse was linked to keeps pointing at them.
SyncedKeepingFormer(db, p, from, to) ==
  LET moved == Unlinked(Moved(db, p, from, to), from, p)
  IN  IF to = NoOne THEN moved ELSE Relinked(moved, to, p)

\* syncSpouseLinks, once p's own link has been saved as from -> to.
Synced(db, p, from, to) ==
  LET moved == Unlinked(Moved(db, p, from, to), from, p)
      former == moved.link[to]
  IN  IF to = NoOne THEN moved
      ELSE Relinked(IF former = p THEN moved ELSE Unlinked(moved, former, to), to, p)

Stored(db) == link' = db.link /\ maternity' = db.maternity

-----------------------------------------------------------------------------
NoLinks == [p \in People |-> NoOne]
AllDays == [w \in Women |-> MaternityDays]

\* "Spouse links used to be one-way": the first start may find a couple linked
\* from one side only, with the days a linked husband holds already moved.
OneWayCouple(m, w) ==
  \/ /\ link = [NoLinks EXCEPT ![m] = w]
     /\ maternity = [AllDays EXCEPT ![w] = @ - added[m]]
  \/ link = [NoLinks EXCEPT ![w] = m] /\ maternity = AllDays

Init ==
  /\ \E m \in Men, w \in Women, days \in Grants :
       /\ added = [n \in Men |-> IF n = m THEN days ELSE 0]
       /\ OneWayCouple(m, w) \/ (link = NoLinks /\ maternity = AllDays)
  /\ admin = [a \in Admins |-> Idle]
  /\ starting = TRUE

Goes(a, to) == admin' = [admin EXCEPT ![a] = to]

\* update: the record is loaded; saving the spouse on file again is no edit.
OpenRecord(a, p, to) ==
  /\ admin[a] = Idle /\ (Undisturbed => ~starting)
  /\ to # link[p]
  /\ Goes(a, [pc |-> "save", who |-> p, from |-> link[p], to |-> to])
  /\ UNCHANGED <<link, added, maternity, starting>>

SaveLink(a) ==
  /\ admin[a].pc = "save"
  /\ link' = [link EXCEPT ![admin[a].who] = admin[a].to]
  /\ Goes(a, [admin[a] EXCEPT !.pc = "sync"])
  /\ UNCHANGED <<added, maternity, starting>>

SyncLinks(a) ==
  /\ admin[a].pc = "sync"
  /\ LET c == admin[a]
     IN  Stored(Synced([link |-> link, maternity |-> maternity], c.who, c.from, c.to))
  /\ Goes(a, Idle)
  /\ UNCHANGED <<added, starting>>

\* grant loads the man before its transaction.
OpenGrant(a, m, days) ==
  /\ admin[a] = Idle /\ (Undisturbed => ~starting)
  /\ Goes(a, [pc |-> "grant", who |-> m, wife |-> link[m], days |-> days])
  /\ UNCHANGED <<link, added, maternity, starting>>

\* transferDays: only the change moves days.
Transfer(m, days) == days - added[m]

\* assertSpouseCanTransfer
WifeCan(wife, days) == wife = NoOne \/ days <= 0 \/ maternity[wife] >= days

Grant(a) ==
  /\ admin[a].pc = "grant"
  /\ LET c == admin[a]
         days == Transfer(c.who, c.days)
     IN  IF WifeCan(c.wife, days)
           THEN /\ added' = [added EXCEPT ![c.who] = c.days]
                /\ Stored(Shifted([link |-> link, maternity |-> maternity], c.wife, days))
           ELSE UNCHANGED <<link, added, maternity>>
  /\ Goes(a, Idle)
  /\ UNCHANGED starting

\* The server stops: no call goes on, and the backfill will run.
Restart ==
  /\ Undisturbed => \A a \in Admins : admin[a] = Idle
  /\ admin' = [a \in Admins |-> Idle] /\ starting' = TRUE
  /\ UNCHANGED <<link, added, maternity>>

OneSided == {p \in People : link[p] # NoOne /\ link[link[p]] = NoOne}

\* backfillSpouseBackLinks, a person at a time.
Backfill(p) ==
  /\ starting /\ p \in OneSided
  /\ Stored(Relinked([link |-> link, maternity |-> maternity], link[p], p))
  /\ UNCHANGED <<added, admin, starting>>

BackfillEnds ==
  /\ starting /\ OneSided = {} /\ starting' = FALSE
  /\ UNCHANGED <<link, added, maternity, admin>>

Next ==
  \/ \E a \in Admins :
       \/ \E p \in People : \E to \in Opposite(p) \cup {NoOne} : OpenRecord(a, p, to)
       \/ \E m \in Men, days \in Grants : OpenGrant(a, m, days)
       \/ SaveLink(a) \/ SyncLinks(a) \/ Grant(a)
  \/ Restart \/ BackfillEnds
  \/ \E p \in People : Backfill(p)

Spec == Init /\ [][Next]_vars

-----------------------------------------------------------------------------
Settled == ~starting /\ \A a \in Admins : admin[a] = Idle

\* Whatever links were made, changed or taken away before, a wife's Maternity
\* is short by exactly what her linked husband holds of Added Paternity ("her
\* Maternity balance for the year is kept short by exactly his Added Paternity
\* earnedDays").
WifeIsShort ==
  Settled =>
    \A w \in Women :
      maternity[w] = MaternityDays - (IF link[w] = NoOne THEN 0 ELSE added[link[w]])

\* A link runs both ways ("Spouse links run both ways").
LinksAreMutual ==
  Settled => \A p \in People : link[p] # NoOne => link[link[p]] = p
=============================================================================
