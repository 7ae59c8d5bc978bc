------------------------ MODULE SpouseTransfer_proofs ------------------------
(***************************************************************************)
(* Proofs about SpouseTransfer for any number of employees, any grants and *)
(* any allotment: between calls every link runs both ways, and a wife's    *)
(* Maternity is short by what her husband holds.  One admin works at a     *)
(* time and the server stops between calls only: SpouseTransfer.cfg        *)
(* assumes the same.                                                       *)
(***************************************************************************)
EXTENDS SpouseTransfer, TLAPS

OneAdmin == \A a, b \in Admins : a = b

Spouses(p) == Opposite(p) \cup {NoOne}

Links == {l \in [People -> People \cup {NoOne}] : \A p \in People : l[p] \in Spouses(p)}

\* What a transaction starts from and leaves.
Records == [link : Links, maternity : [Women -> Int]]

Calls ==
  [pc : {"idle"}]
    \cup [pc : {"save", "sync"}, who : People, from : People \cup {NoOne}, to : People \cup {NoOne}]
    \cup [pc : {"grant"}, who : Men, wife : Women \cup {NoOne}, days : Nat]

Typed ==
  /\ link \in Links /\ added \in [Men -> Nat] /\ maternity \in [Women -> Int]
  /\ admin \in [Admins -> Calls] /\ starting \in BOOLEAN

Mutual(l) == \A p \in People : l[p] # NoOne => l[l[p]] = p

\* What a husband holds, for the wife he is linked to.
Held(s) == IF s = NoOne THEN 0 ELSE added[s]

Short(l, m) == \A w \in Women : m[w] = MaternityDays - Held(l[w])

Coupled(l, m) == Mutual(l) /\ Short(l, m)

\* The records an earlier version left, before the backfill has run.
OneWay ==
  \E m \in Men, w \in Women :
    \/ /\ link = [NoLinks EXCEPT ![m] = w]
       /\ maternity = [AllDays EXCEPT ![w] = @ - added[m]]
    \/ link = [NoLinks EXCEPT ![w] = m] /\ maternity = AllDays

\* Between the save of a link and the transaction that completes it, all is
\* as it was but for that link.
CallFits(c) ==
  /\ c.pc = "save" => /\ Coupled(link, maternity) /\ link[c.who] = c.from
                      /\ c.to \in Spouses(c.who) /\ c.from \in Spouses(c.who) /\ c.to # c.from
  /\ c.pc = "sync" => /\ Coupled([link EXCEPT ![c.who] = c.from], maternity)
                      /\ link[c.who] = c.to
                      /\ c.to \in Spouses(c.who) /\ c.from \in Spouses(c.who) /\ c.to # c.from
  /\ c.pc = "grant" => Coupled(link, maternity) /\ link[c.who] = c.wife

AllIdle == \A a \in Admins : admin[a] = Idle

SpouseInv ==
  /\ Typed
  /\ starting => AllIdle
  /\ AllIdle => Coupled(link, maternity) \/ (starting /\ OneWay)
  /\ \A a \in Admins : CallFits(admin[a])

-----------------------------------------------------------------------------
LEMMA OppositeIs ==
  ASSUME NEW p \in People
  PROVE  /\ p \in Men => Spouses(p) = Women \cup {NoOne}
         /\ p \in Women => Spouses(p) = Men \cup {NoOne} /\ p \notin Men
         /\ p \in Men \/ p \in Women
         /\ p # NoOne /\ p \notin Spouses(p) /\ NoOne \in Spouses(p)
BY SpouseAssumption DEF Spouses, Opposite, People

LEMMA ShiftedIs ==
  ASSUME NEW db \in Records, NEW wife \in Women \cup {NoOne}, NEW days \in Int
  PROVE  \E e \in Records :
           /\ e = Shifted(db, wife, days) /\ e.link = db.link
           /\ \A w \in Women : e.maternity[w] = IF w = wife THEN db.maternity[w] - days ELSE db.maternity[w]
<1>1. PICK e : e = Shifted(db, wife, days)
  OBVIOUS
<1>2. db.link \in Links /\ db.maternity \in [Women -> Int]
  BY DEF Records
<1>3. CASE wife = NoOne
  <2>1. e = db /\ wife \notin Women
    BY <1>1, <1>3, SpouseAssumption DEF Shifted, People
  <2> QED BY <1>1, <2>1
<1>4. CASE wife # NoOne
  <2>1. e = [db EXCEPT !.maternity = [db.maternity EXCEPT ![wife] = db.maternity[wife] - days]]
    BY <1>1, <1>4 DEF Shifted
  <2>2. wife \in Women /\ db.maternity[wife] - days \in Int
    BY <1>2, <1>4
  <2>3. [db.maternity EXCEPT ![wife] = db.maternity[wife] - days] \in [Women -> Int]
    BY <1>2, <2>2
  <2>4. e \in Records /\ e.link = db.link
        /\ e.maternity = [db.maternity EXCEPT ![wife] = db.maternity[wife] - days]
    BY <2>1, <2>3 DEF Records
  <2> QED BY <1>1, <1>2, <2>2, <2>4
<1> QED BY <1>3, <1>4

\* movePaternityTransfer: a man's days leave one wife and are taken from the
\* other.
MovesDays(db, e, p, from, to) ==
  /\ e.link = db.link
  /\ \A w \in Women :
       /\ p \in Men /\ w = from /\ w # to => e.maternity[w] = db.maternity[w] + added[p]
       /\ p \in Men /\ w # from /\ w = to => e.maternity[w] = db.maternity[w] - added[p]
       /\ p \in Women \/ (w = from /\ w = to) \/ (w # from /\ w # to)
            => e.maternity[w] = db.maternity[w]

LEMMA MovedIs ==
  ASSUME added \in [Men -> Nat], NEW db \in Records, NEW p \in People,
         NEW from \in Spouses(p), NEW to \in Spouses(p)
  PROVE  \E e \in Records : e = Moved(db, p, from, to) /\ MovesDays(db, e, p, from, to)
<1>1. PICK e : e = Moved(db, p, from, to)
  OBVIOUS
<1>2. CASE p \in Women \/ from = to
  <2>1. e = db
    BY <1>1, <1>2 DEF Moved
  <2> QED BY <1>1, <1>2, <2>1, OppositeIs DEF MovesDays
<1>3. CASE ~(p \in Women \/ from = to)
  <2>1. p \in Men /\ p \notin Women /\ from \in Women \cup {NoOne} /\ to \in Women \cup {NoOne} /\ from # to
    BY <1>3, OppositeIs
  <2>2. added[p] \in Int /\ -added[p] \in Int
    BY <2>1
  <2>3. PICK d \in Records :
          /\ d = Shifted(db, from, -added[p]) /\ d.link = db.link
          /\ \A w \in Women : d.maternity[w] =
                 IF w = from THEN db.maternity[w] - (-added[p]) ELSE db.maternity[w]
    BY <2>1, <2>2, ShiftedIs, ZenonT(40)
  <2>4. PICK f \in Records :
          /\ f = Shifted(d, to, added[p]) /\ f.link = d.link
          /\ \A w \in Women : f.maternity[w] = IF w = to THEN d.maternity[w] - added[p] ELSE d.maternity[w]
    BY <2>1, <2>2, ShiftedIs, ZenonT(40)
  <2>5. e = f
    BY <1>1, <1>3, <2>3, <2>4 DEF Moved
  <2>6. \A w \in Women : db.maternity[w] \in Int
    BY DEF Records
  <2>7. MovesDays(db, f, p, from, to)
    BY <2>1, <2>2, <2>3, <2>4, <2>6 DEF MovesDays
  <2> QED BY <1>1, <2>5, <2>7
<1> QED BY <1>2, <1>3

\* relinkSpouse: the link, and the days of a man.
LEMMA RelinkedIs ==
  ASSUME added \in [Men -> Nat], NEW db \in Records, NEW p \in People, NEW to \in Spouses(p)
  PROVE  \E e, d \in Records :
           /\ e = Relinked(db, p, to)
           /\ d.link = [db.link EXCEPT ![p] = to] /\ d.maternity = db.maternity
           /\ MovesDays(d, e, p, db.link[p], to)
<1>1. PICK d : d = [db EXCEPT !.link = [db.link EXCEPT ![p] = to]]
  OBVIOUS
<1>2. db.link \in Links /\ db.maternity \in [Women -> Int]
  BY DEF Records
<1>3. [db.link EXCEPT ![p] = to] \in Links
  BY <1>2, OppositeIs DEF Links, Spouses, Opposite, People
<1>4. d \in Records /\ d.link = [db.link EXCEPT ![p] = to] /\ d.maternity = db.maternity
  BY <1>1, <1>3 DEF Records
<1>5. db.link[p] \in Spouses(p)
  BY <1>2 DEF Links
<1>6. PICK e \in Records : e = Moved(d, p, db.link[p], to) /\ MovesDays(d, e, p, db.link[p], to)
  BY <1>4, <1>5, MovedIs
<1>7. e = Relinked(db, p, to)
  BY <1>1, <1>6 DEF Relinked
<1> QED BY <1>4, <1>6, <1>7

\* Someone's former spouse lets go of the link back.
LEMMA UnlinkedIs ==
  ASSUME added \in [Men -> Nat], NEW db \in Records, NEW p \in People, NEW former \in Spouses(p),
         former # NoOne => db.link[former] = p
  PROVE  \E e, d \in Records :
           /\ e = Unlinked(db, former, p)
           /\ former = NoOne => e = db
           /\ former # NoOne => /\ d.link = [db.link EXCEPT ![former] = NoOne]
                                /\ d.maternity = db.maternity
                                /\ MovesDays(d, e, former, p, NoOne)
<1>1. PICK e : e = Unlinked(db, former, p)
  OBVIOUS
<1>2. CASE former = NoOne
  <2>1. e = db
    BY <1>1, <1>2 DEF Unlinked
  <2> QED BY <1>1, <1>2, <2>1
<1>3. CASE former # NoOne
  <2>1. former \in People /\ NoOne \in Spouses(former)
    BY <1>3, OppositeIs DEF People
  <2>2. e = Relinked(db, former, NoOne)
    BY <1>1, <1>3 DEF Unlinked
  <2>3. PICK f, d \in Records :
          /\ f = Relinked(db, former, NoOne)
          /\ d.link = [db.link EXCEPT ![former] = NoOne] /\ d.maternity = db.maternity
          /\ MovesDays(d, f, former, db.link[former], NoOne)
    BY <2>1, RelinkedIs
  <2> QED BY <1>1, <1>3, <2>2, <2>3
<1> QED BY <1>2, <1>3

\* The links once p's spouse has gone from `from' to `to'.
NewLinks(l0, l, p, from, to) ==
  LET former == IF to = NoOne THEN NoOne ELSE l0[to]
  IN  \A q \in People :
        /\ q = p => l[q] = to
        /\ q = from => l[q] = NoOne
        /\ q = to => l[q] = p
        /\ q = former => l[q] = NoOne
        /\ q \notin {p, from, to, former} => l[q] = l0[q]

LEMMA NewLinksAreMutual ==
  ASSUME NEW l0 \in Links, NEW l \in Links, NEW p \in People, NEW from, NEW to \in Spouses(p),
         Mutual(l0), l0[p] = from, from # to, NewLinks(l0, l, p, from, to)
  PROVE  Mutual(l)
<1>1. NoOne \notin People
  BY SpouseAssumption
<1>2. \A q \in People : l0[q] # NoOne => l0[q] \in People /\ l0[l0[q]] = q
  BY DEF Links, Mutual
<1>3. to # NoOne => to \in People
  BY OppositeIs DEF People
<1>4. PICK former : former = IF to = NoOne THEN NoOne ELSE l0[to]
  OBVIOUS
<1>5. \A q \in People :
        /\ q = p => l[q] = to
        /\ q = from => l[q] = NoOne
        /\ q = to => l[q] = p
        /\ q = former => l[q] = NoOne
        /\ q \notin {p, from, to, former} => l[q] = l0[q]
  BY <1>4 DEF NewLinks
<1> SUFFICES ASSUME NEW q \in People, l[q] # NoOne PROVE l[l[q]] = q
  BY DEF Mutual
<1>6. CASE q = p
  BY <1>3, <1>5, <1>6
<1>7. CASE q = to
  BY <1>5, <1>7
<1>8. CASE q # p /\ q # to
  <2>1. q # from /\ q # former
    BY <1>5
  <2>2. l[q] = l0[q]
    BY <1>5, <1>8, <2>1
  <2>3. l0[q] \in People /\ l0[l0[q]] = q
    BY <1>2, <2>2
  <2>4. l0[q] # p /\ l0[q] # from
    <3>1. l0[q] = p => q = from
      BY <2>3
    <3>2. from # NoOne => l0[from] = p
      BY <1>2
    <3>3. l0[q] = from => q = p
      BY <1>1, <2>3, <3>2
    <3> QED BY <1>8, <2>1, <3>1, <3>3
  <2>5. l0[q] # to
    BY <1>1, <1>4, <2>1, <2>3
  <2>6. l0[q] # former
    BY <1>1, <1>2, <1>3, <1>4, <1>8, <2>3
  <2> QED BY <1>5, <2>2, <2>3, <2>4, <2>5, <2>6
<1> QED BY <1>6, <1>7, <1>8

\* syncSpouseLinks keeps the books, whoever was married to whom.
LEMMA SyncKeepsCouples ==
  ASSUME added \in [Men -> Nat], NEW db \in Records, NEW l0 \in Links, NEW p \in People,
         NEW from \in Spouses(p), NEW to \in Spouses(p), from # to,
         l0[p] = from, db.link = [l0 EXCEPT ![p] = to], Coupled(l0, db.maternity)
  PROVE  \E e \in Records : e = Synced(db, p, from, to) /\ Coupled(e.link, e.maternity)
<1>1. Mutual(l0) /\ Short(l0, db.maternity) /\ l0 \in [People -> People \cup {NoOne}]
      /\ \A q \in People : l0[q] \in Spouses(q)
  BY DEF Coupled, Links
<1>2. /\ p # from /\ p # to /\ p # NoOne /\ NoOne \notin People /\ NoOne \notin Men /\ NoOne \notin Women
      /\ from # NoOne => from \in People
      /\ to # NoOne => to \in People
  BY OppositeIs, SpouseAssumption DEF People
<1>3. db.link[p] = to /\ \A q \in People : q # p => db.link[q] = l0[q]
  BY <1>1
<1>4. PICK d1 \in Records : d1 = Moved(db, p, from, to) /\ MovesDays(db, d1, p, from, to)
  BY MovedIs
<1>5. d1.link = db.link
  BY <1>4 DEF MovesDays
<1>6. from # NoOne => d1.link[from] = p
  BY <1>1, <1>2, <1>3, <1>5 DEF Mutual
<1>7. PICK d2, c2 \in Records :
        /\ d2 = Unlinked(d1, from, p)
        /\ from = NoOne => d2 = d1
        /\ from # NoOne => /\ c2.link = [d1.link EXCEPT ![from] = NoOne]
                           /\ c2.maternity = d1.maternity
                           /\ MovesDays(c2, d2, from, p, NoOne)
  BY <1>6, UnlinkedIs
<1>8. \A q \in People : d2.link[q] = IF q = from THEN NoOne ELSE db.link[q]
  <2>1. from # NoOne => d2.link = [db.link EXCEPT ![from] = NoOne]
    BY <1>5, <1>7 DEF MovesDays
  <2>2. db.link \in [People -> People \cup {NoOne}]
    BY DEF Records, Links
  <2> QED BY <1>2, <1>5, <1>7, <2>1, <2>2
<1>9. /\ p \in Men => p \notin Women /\ from \in Women \cup {NoOne} /\ to \in Women \cup {NoOne}
      /\ p \in Women => p \notin Men /\ from \in Men \cup {NoOne} /\ to \in Men \cup {NoOne}
      /\ p \in Men \/ p \in Women
      /\ Men \cap Women = {}
  BY OppositeIs, SpouseAssumption
\* The days as they stand once p and the former spouse are parted.
<1>10. \A w \in Women :
         /\ p \in Men /\ w = from => d2.maternity[w] = db.maternity[w] + added[p]
         /\ p \in Men /\ w = to => d2.maternity[w] = db.maternity[w] - added[p]
         /\ p \in Men /\ w # from /\ w # to => d2.maternity[w] = db.maternity[w]
         /\ p \in Women /\ w = p /\ from # NoOne => d2.maternity[w] = db.maternity[w] + added[from]
         /\ p \in Women /\ (w # p \/ from = NoOne) => d2.maternity[w] = db.maternity[w]
  <2>1. CASE p \in Men
    <3>1. \A w \in Women : d2.maternity[w] = d1.maternity[w]
      BY <1>7, <1>9, <2>1 DEF MovesDays
    <3> QED BY <1>4, <1>9, <2>1, <3>1 DEF MovesDays
  <2>2. CASE p \in Women
    <3>1. \A w \in Women : d1.maternity[w] = db.maternity[w]
      BY <1>4, <2>2 DEF MovesDays
    <3>2. CASE from = NoOne
      BY <1>7, <1>9, <2>2, <3>1, <3>2
    <3>3. CASE from # NoOne
      <4>1. from \in Men /\ from \notin Women
        BY <1>9, <2>2, <3>3
      <4>2. \A w \in Women : d2.maternity[w] = IF w = p THEN d1.maternity[w] + added[from] ELSE d1.maternity[w]
        BY <1>2, <1>7, <3>3, <4>1 DEF MovesDays
      <4> QED BY <1>9, <2>2, <3>1, <3>3, <4>2
    <3> QED BY <3>2, <3>3
  <2> QED BY <1>9, <2>1, <2>2
<1>11. \A w \in Women : db.maternity[w] = MaternityDays - Held(l0[w])
  BY <1>1 DEF Short
<1>12. \A s \in Men : added[s] \in Nat /\ Held(s) = added[s]
  BY <1>2 DEF Held
<1>13. Held(NoOne) = 0 /\ MaternityDays \in Nat /\ \A w \in Women : db.maternity[w] \in Int
  BY SpouseAssumption DEF Held, Records
<1>14. \A w \in Women : w \in People /\ l0[w] \in Men \cup {NoOne}
  BY <1>1, OppositeIs DEF People
<1>15. CASE to = NoOne
  <2>1. d2 = Synced(db, p, from, to)
    BY <1>4, <1>7, <1>15 DEF Synced
  <2>2. NewLinks(l0, d2.link, p, from, to)
    BY <1>2, <1>3, <1>8, <1>15 DEF NewLinks
  <2>3. Mutual(d2.link)
    BY <1>1, <2>2, NewLinksAreMutual DEF Records
  <2>4. Short(d2.link, d2.maternity)
    <3> SUFFICES ASSUME NEW w \in Women PROVE d2.maternity[w] = MaternityDays - Held(d2.link[w])
      BY DEF Short
    <3>1. w # NoOne
      BY <1>2
    <3>2. CASE p \in Men /\ w = from
      <4>1. l0[w] = p /\ d2.link[w] = NoOne
        BY <1>1, <1>2, <1>8, <1>14, <3>2 DEF Mutual
      <4> QED BY <1>9, <1>10, <1>11, <1>12, <1>13, <3>2, <4>1
    <3>3. CASE p \in Men /\ w # from
      <4>1. d2.link[w] = l0[w]
        BY <1>3, <1>8, <1>9, <1>14, <3>3
      <4> QED BY <1>10, <1>11, <1>15, <3>1, <3>3, <4>1
    <3>4. CASE p \in Women /\ w = p /\ from # NoOne
      <4>1. l0[w] = from /\ d2.link[w] = NoOne /\ from \in Men
        BY <1>2, <1>3, <1>8, <1>9, <1>14, <1>15, <3>4
      <4> QED BY <1>10, <1>11, <1>12, <1>13, <3>4, <4>1
    <3>5. CASE p \in Women /\ w = p /\ from = NoOne
      BY <1>15, <3>5
    <3>6. CASE p \in Women /\ w # p
      <4>1. w # from
        BY <1>9, <3>1, <3>6
      <4>2. db.link[w] = l0[w]
        BY <1>3, <1>14, <3>6
      <4>3. d2.link[w] = l0[w]
        BY <1>8, <1>14, <4>1, <4>2
      <4> QED BY <1>10, <1>11, <3>6, <4>3
    <3> QED BY <1>9, <3>2, <3>3, <3>4, <3>5, <3>6
  <2> QED BY <2>1, <2>3, <2>4 DEF Coupled
<1>16. CASE to # NoOne
  <2>1. PICK former : former = d2.link[to]
    OBVIOUS
  <2>2. to \in People /\ former = l0[to] /\ former \in Spouses(to) /\ p \in Spouses(to)
    <3>1. to \in People
      BY <1>2, <1>16
    <3>2. former = l0[to]
      BY <1>2, <1>3, <1>8, <2>1, <3>1
    <3>3. p \in Spouses(to)
      BY <1>9, <1>16, <3>1, OppositeIs
    <3> QED BY <1>1, <3>1, <3>2, <3>3
  <2>3. former # p /\ (former # NoOne => former \in People /\ former # from /\ former # to /\ l0[former] = to)
    <3>1. former # NoOne => former \in People /\ l0[former] = to
      BY <1>1, <2>2 DEF Mutual
    <3>2. former # p
      BY <1>2, <3>1
    <3>3. former # NoOne => former # from /\ former # to
      BY <1>2, <1>9, <2>2, <3>1, OppositeIs
    <3> QED BY <3>1, <3>2, <3>3
  <2>4. former # NoOne => d2.link[former] = to
    BY <1>3, <1>8, <2>3
  <2>5. PICK d3, c3 \in Records :
          /\ d3 = Unlinked(d2, former, to)
          /\ former = NoOne => d3 = d2
          /\ former # NoOne => /\ c3.link = [d2.link EXCEPT ![former] = NoOne]
                               /\ c3.maternity = d2.maternity
                               /\ MovesDays(c3, d3, former, to, NoOne)
    <3> HIDE <2>1
    <3>1. to \in People /\ former \in Spouses(to) /\ (former # NoOne => d2.link[former] = to)
      BY <2>2, <2>4
    <3> QED BY <3>1, UnlinkedIs
  <2>6. \A q \in People : d3.link[q] = IF q = former THEN NoOne ELSE d2.link[q]
    <3>1. former # NoOne => d3.link = [d2.link EXCEPT ![former] = NoOne]
      BY <2>5 DEF MovesDays
    <3>2. d2.link \in [People -> People \cup {NoOne}]
      BY DEF Records, Links
    <3> QED BY <1>2, <2>5, <3>1, <3>2
  <2>7. PICK d4, c4 \in Records :
          /\ d4 = Relinked(d3, to, p)
          /\ c4.link = [d3.link EXCEPT ![to] = p] /\ c4.maternity = d3.maternity
          /\ MovesDays(c4, d4, to, d3.link[to], p)
    BY <2>2, RelinkedIs
  <2>8. d4 = Synced(db, p, from, to)
    BY <1>4, <1>7, <1>16, <2>1, <2>3, <2>5, <2>7 DEF Synced
  <2>9. \A q \in People : d4.link[q] = IF q = to THEN p ELSE d3.link[q]
    <3>1. d4.link = [d3.link EXCEPT ![to] = p]
      BY <2>7 DEF MovesDays
    <3>2. d3.link \in [People -> People \cup {NoOne}]
      BY DEF Records, Links
    <3> QED BY <3>1, <3>2
  <2>10. NewLinks(l0, d4.link, p, from, to)
    BY <1>2, <1>3, <1>8, <1>16, <2>2, <2>3, <2>6, <2>9 DEF NewLinks
  <2>11. Mutual(d4.link)
    BY <1>1, <2>10, NewLinksAreMutual DEF Records
  <2>12. d3.link[to] = former
    BY <2>1, <2>2, <2>3, <2>6
  <2>13. Short(d4.link, d4.maternity)
    <3> SUFFICES ASSUME NEW w \in Women PROVE d4.maternity[w] = MaternityDays - Held(d4.link[w])
      BY DEF Short
    <3>1. w # NoOne /\ w \in People
      BY <1>2, <1>14
    <3>2. CASE p \in Men
      <4>1. to \in Women /\ to \notin Men /\ former \in Men \cup {NoOne}
        BY <1>9, <1>16, <2>2, <3>2, OppositeIs
      <4>2. d4.maternity[w] = d3.maternity[w]
        BY <2>7, <4>1 DEF MovesDays
      <4>3. d3.maternity[w] = IF w = to THEN d2.maternity[w] + Held(former) ELSE d2.maternity[w]
        <5>1. CASE former = NoOne
          <6>1. d2.maternity[w] \in Int
            BY DEF Records
          <6> QED BY <1>13, <2>5, <5>1, <6>1
        <5>2. CASE former # NoOne
          BY <1>2, <1>9, <1>12, <2>5, <4>1, <5>2 DEF MovesDays
        <5> QED BY <5>1, <5>2
      <4>4. CASE w = to
        <5>1. d4.link[w] = p /\ l0[w] = former
          BY <2>2, <2>9, <3>1, <4>4
        <5>2. Held(former) \in Int /\ added[p] \in Int
          BY <1>12, <1>13, <3>2, <4>1
        <5>3. d2.maternity[w] = db.maternity[w] - added[p] /\ db.maternity[w] = MaternityDays - Held(former)
          BY <1>10, <1>11, <3>2, <4>4, <5>1
        <5>4. d4.maternity[w] = db.maternity[w] - added[p] + Held(former)
          BY <4>2, <4>3, <4>4, <5>3
        <5> QED BY <1>12, <1>13, <3>2, <5>1, <5>2, <5>3, <5>4
      <4>5. CASE w = from
        <5>1. l0[w] = p /\ d4.link[w] = NoOne
          BY <1>1, <1>2, <1>8, <2>3, <2>6, <2>9, <3>1, <4>5 DEF Mutual
        <5>2. d4.maternity[w] = db.maternity[w] + added[p]
          BY <1>10, <3>2, <4>2, <4>3, <4>5
        <5> QED BY <1>11, <1>12, <1>13, <3>2, <5>1, <5>2
      <4>6. CASE w # to /\ w # from
        <5>1. w # p /\ w # former
          BY <1>9, <3>1, <3>2, <4>1
        <5>2. d4.link[w] = l0[w]
          BY <1>3, <1>8, <2>6, <2>9, <3>1, <4>6, <5>1
        <5> QED BY <1>10, <1>11, <3>2, <4>2, <4>3, <4>6, <5>2
      <4> QED BY <4>4, <4>5, <4>6
    <3>3. CASE p \in Women
      <4>1. to \in Men /\ to \notin Women /\ former \in Women \cup {NoOne}
        BY <1>9, <1>16, <2>2, <3>3, OppositeIs
      <4>2. d3.maternity[w] = d2.maternity[w]
        <5>1. former # NoOne => former \in Women
          BY <4>1
        <5> QED BY <2>5, <5>1 DEF MovesDays
      <4>3. /\ w = former => d4.maternity[w] = d3.maternity[w] + added[to]
            /\ w = p => d4.maternity[w] = d3.maternity[w] - added[to]
            /\ w # former /\ w # p => d4.maternity[w] = d3.maternity[w]
        BY <2>3, <2>7, <2>12, <4>1 DEF MovesDays
      <4>4. CASE w = p
        <5>1. d4.link[w] = to
          BY <1>2, <1>3, <1>8, <2>3, <2>6, <2>9, <3>1, <4>4
        <5>2. l0[w] = from /\ from \in Men \cup {NoOne}
          BY <1>9, <3>3, <4>4
        <5>3. db.maternity[w] = MaternityDays - Held(from) /\ Held(to) = added[to] /\ added[to] \in Int
              /\ Held(from) \in Int
          BY <1>11, <1>12, <1>13, <4>1, <5>2
        <5>4. d2.maternity[w] = db.maternity[w] + Held(from)
          BY <1>10, <1>12, <1>13, <3>3, <4>4, <5>2
        <5> QED BY <1>13, <4>2, <4>3, <4>4, <5>1, <5>3, <5>4
      <4>5. CASE w = former
        <5>1. l0[w] = to /\ d4.link[w] = NoOne
          BY <2>2, <2>3, <2>6, <2>9, <3>1, <4>5
        <5>2. d2.maternity[w] = db.maternity[w]
          BY <1>10, <2>3, <3>3, <4>5
        <5> QED BY <1>11, <1>12, <1>13, <4>1, <4>2, <4>3, <4>5, <5>1, <5>2
      <4>6. CASE w # p /\ w # former
        <5>1. w # to /\ w # from
          BY <1>9, <3>1, <3>3, <4>1
        <5>2. d4.link[w] = l0[w]
          BY <1>3, <1>8, <2>6, <2>9, <3>1, <4>6, <5>1
        <5> QED BY <1>10, <1>11, <3>3, <4>2, <4>3, <4>6, <5>2
      <4> QED BY <4>4, <4>5, <4>6
    <3> QED BY <1>9, <3>2, <3>3
  <2> QED BY <2>8, <2>11, <2>13 DEF Coupled
<1> QED BY <1>15, <1>16
-----------------------------------------------------------------------------
\* A call that goes on to `d` keeps the invariant when d finds what it needs.
LEMMA CallGoesOn ==
  ASSUME OneAdmin, SpouseInv, NEW a \in Admins, NEW d \in Calls, Goes(a, d),
         ~starting, UNCHANGED starting,
         link' \in Links, added' \in [Men -> Nat], maternity' \in [Women -> Int],
         d = Idle => Coupled(link, maternity)', CallFits(d)'
  PROVE  SpouseInv'
<1>1. admin' \in [Admins -> Calls] /\ \A b \in Admins : b = a /\ admin'[b] = d
  BY DEF SpouseInv, Typed, OneAdmin, Goes
<1>2. Typed'
  BY <1>1 DEF SpouseInv, Typed
<1>3. AllIdle' => d = Idle
  BY <1>1 DEF AllIdle
<1>4. \A b \in Admins : CallFits(admin[b])'
  <2> SUFFICES ASSUME NEW b \in Admins PROVE CallFits(admin[b])'
    OBVIOUS
  <2>1. admin'[b] = d
    BY <1>1
  <2> QED BY <2>1 DEF CallFits
<1> QED BY <1>2, <1>3, <1>4 DEF SpouseInv

LEMMA IdleFits == Idle \in Calls /\ CallFits(Idle)' /\ CallFits(Idle)
BY DEF Idle, Calls, CallFits

\* While one admin's call is open, the server is not starting.
LEMMA OpenCallRuns ==
  ASSUME SpouseInv, NEW a \in Admins, admin[a] # Idle
  PROVE  ~starting
BY DEF SpouseInv, AllIdle

\* Nothing recorded changes.
Books == <<link, added, maternity>>

LEMMA CoupledStays ==
  ASSUME Coupled(link, maternity), UNCHANGED Books
  PROVE  Coupled(link, maternity)'
BY DEF Coupled, Mutual, Short, Held, Books

LEMMA OpenRecordKeeps ==
  ASSUME OneAdmin, Undisturbed, SpouseInv, NEW a \in Admins, NEW p \in People,
         NEW to \in Opposite(p) \cup {NoOne}, OpenRecord(a, p, to)
  PROVE  SpouseInv'
<1>1. PICK from : from = link[p]
  OBVIOUS
<1>2. PICK d : d = [pc |-> "save", who |-> p, from |-> from, to |-> to]
  OBVIOUS
<1>3. link \in Links /\ added \in [Men -> Nat] /\ maternity \in [Women -> Int]
  BY DEF SpouseInv, Typed
<1>4. from \in Spouses(p) /\ to \in Spouses(p)
  BY <1>1, <1>3 DEF Links, Spouses
<1>5. from \in People \cup {NoOne} /\ to \in People \cup {NoOne}
  BY <1>4 DEF Spouses, Opposite, People
<1>6. d \in Calls /\ d.pc = "save" /\ d.who = p /\ d.from = from /\ d.to = to
  BY <1>2, <1>5 DEF Calls
<1>7. Goes(a, d) /\ ~starting /\ UNCHANGED Books /\ UNCHANGED starting /\ to # from /\ admin[a] = Idle
  BY <1>1, <1>2 DEF OpenRecord, Books
<1>8. AllIdle
  BY <1>7 DEF AllIdle, OneAdmin
<1>9. Coupled(link, maternity)
  BY <1>7, <1>8 DEF SpouseInv
<1>10. Coupled(link, maternity)'
  BY <1>7, <1>9, CoupledStays
<1>11. link' = link /\ added' = added /\ maternity' = maternity
  BY <1>7 DEF Books
<1>12. CallFits(d)'
  BY <1>1, <1>4, <1>6, <1>7, <1>10, <1>11 DEF CallFits
<1>13. d # Idle
  BY <1>6 DEF Idle
<1> QED BY <1>3, <1>6, <1>7, <1>11, <1>12, <1>13, CallGoesOn

LEMMA OpenGrantKeeps ==
  ASSUME OneAdmin, Undisturbed, SpouseInv, NEW a \in Admins, NEW m \in Men,
         NEW days \in Grants, OpenGrant(a, m, days)
  PROVE  SpouseInv'
<1>1. PICK wife : wife = link[m]
  OBVIOUS
<1>2. PICK d : d = [pc |-> "grant", who |-> m, wife |-> wife, days |-> days]
  OBVIOUS
<1>3. link \in Links /\ added \in [Men -> Nat] /\ maternity \in [Women -> Int]
  BY DEF SpouseInv, Typed
<1>4. wife \in Women \cup {NoOne} /\ days \in Nat
  BY <1>1, <1>3, OppositeIs, SpouseAssumption DEF Links, People
<1>5. d \in Calls /\ d.pc = "grant" /\ d.who = m /\ d.wife = wife
  BY <1>2, <1>4 DEF Calls
<1>6. Goes(a, d) /\ ~starting /\ UNCHANGED Books /\ UNCHANGED starting /\ admin[a] = Idle
  BY <1>1, <1>2 DEF OpenGrant, Books
<1>7. AllIdle
  BY <1>6 DEF AllIdle, OneAdmin
<1>8. Coupled(link, maternity)'
  BY <1>6, <1>7, CoupledStays DEF SpouseInv
<1>9. link' = link /\ added' = added /\ maternity' = maternity
  BY <1>6 DEF Books
<1>10. CallFits(d)'
  BY <1>1, <1>5, <1>8, <1>9 DEF CallFits
<1>11. d # Idle
  BY <1>5 DEF Idle
<1> QED BY <1>3, <1>5, <1>6, <1>9, <1>10, <1>11, CallGoesOn

\* The link is on file, the rest of the couple's books is not yet.
LEMMA SaveLinkKeeps ==
  ASSUME OneAdmin, SpouseInv, NEW a \in Admins, SaveLink(a)
  PROVE  SpouseInv'
<1>1. PICK c : c = admin[a]
  OBVIOUS
<1>2. c \in Calls /\ c.pc = "save"
  BY <1>1 DEF SpouseInv, Typed, SaveLink
<1>3. c \in [pc : {"save", "sync"}, who : People, from : People \cup {NoOne}, to : People \cup {NoOne}]
  BY <1>2 DEF Calls
<1>4. PICK d : d = [c EXCEPT !.pc = "sync"]
  OBVIOUS
<1>5. d \in Calls /\ d.pc = "sync" /\ d.who = c.who /\ d.from = c.from /\ d.to = c.to
  BY <1>3, <1>4 DEF Calls
<1>6. Goes(a, d) /\ link' = [link EXCEPT ![c.who] = c.to] /\ UNCHANGED <<added, maternity, starting>>
  BY <1>1, <1>4 DEF SaveLink
<1>7. link \in Links /\ added \in [Men -> Nat] /\ maternity \in [Women -> Int]
  BY DEF SpouseInv, Typed
<1>8. CallFits(c)
  BY <1>1 DEF SpouseInv
<1>9. /\ Coupled(link, maternity) /\ link[c.who] = c.from
      /\ c.to \in Spouses(c.who) /\ c.from \in Spouses(c.who) /\ c.to # c.from
  BY <1>2, <1>8 DEF CallFits
<1>10. c.who \in People /\ c.to \in People \cup {NoOne}
  BY <1>3
<1>11. link' \in Links
  <2>1. link \in [People -> People \cup {NoOne}] /\ \A p \in People : link[p] \in Spouses(p)
    BY <1>7 DEF Links
  <2>2. link' \in [People -> People \cup {NoOne}]
    BY <1>6, <1>10, <2>1
  <2>3. \A p \in People : link'[p] \in Spouses(p)
    BY <1>6, <1>9, <1>10, <2>1
  <2> QED BY <2>2, <2>3 DEF Links
<1>12. link'[c.who] = c.to /\ [link' EXCEPT ![c.who] = c.from] = link
  BY <1>6, <1>7, <1>9, <1>10 DEF Links
<1>13. Coupled([link EXCEPT ![c.who] = c.from], maternity)'
  <2>1. PICK l : l = [link' EXCEPT ![c.who] = c.from]
    OBVIOUS
  <2>2. l = link
    BY <1>12, <2>1
  <2>3. Mutual(l) /\ \A w \in Women : maternity'[w] = MaternityDays - Held(l[w])'
    BY <1>6, <1>9, <2>2 DEF Coupled, Mutual, Short, Held
  <2> QED BY <2>1, <2>3 DEF Coupled, Mutual, Short, Held
<1>14. CallFits(d)'
  BY <1>5, <1>9, <1>12, <1>13 DEF CallFits
<1>15. d # Idle /\ admin[a] # Idle
  BY <1>1, <1>2, <1>5 DEF Idle
<1>16. ~starting
  BY <1>15, OpenCallRuns
<1> QED BY <1>5, <1>6, <1>7, <1>11, <1>14, <1>15, <1>16, CallGoesOn

LEMMA SyncLinksKeeps ==
  ASSUME OneAdmin, SpouseInv, NEW a \in Admins, SyncLinks(a)
  PROVE  SpouseInv'
<1>1. PICK c : c = admin[a]
  OBVIOUS
<1>2. c \in Calls /\ c.pc = "sync"
  BY <1>1 DEF SpouseInv, Typed, SyncLinks
<1>3. c \in [pc : {"save", "sync"}, who : People, from : People \cup {NoOne}, to : People \cup {NoOne}]
  BY <1>2 DEF Calls
<1>4. PICK db : db = [link |-> link, maternity |-> maternity]
  OBVIOUS
<1>5. /\ Goes(a, Idle) /\ UNCHANGED <<added, starting>>
      /\ Stored(Synced(db, c.who, c.from, c.to))
  BY <1>1, <1>4 DEF SyncLinks
<1>6. link \in Links /\ added \in [Men -> Nat] /\ maternity \in [Women -> Int]
  BY DEF SpouseInv, Typed
<1>7. db \in Records /\ db.link = link /\ db.maternity = maternity
  BY <1>4, <1>6 DEF Records
<1>8. CallFits(c)
  BY <1>1 DEF SpouseInv
<1>9. /\ Coupled([link EXCEPT ![c.who] = c.from], maternity) /\ link[c.who] = c.to
      /\ c.to \in Spouses(c.who) /\ c.from \in Spouses(c.who) /\ c.to # c.from
  BY <1>2, <1>8 DEF CallFits
<1>10. PICK l0 : l0 = [link EXCEPT ![c.who] = c.from]
  OBVIOUS
<1>11. c.who \in People /\ c.from \in People \cup {NoOne}
  BY <1>3
<1>12. l0 \in Links
  <2>1. link \in [People -> People \cup {NoOne}] /\ \A p \in People : link[p] \in Spouses(p)
    BY <1>6 DEF Links
  <2>2. l0 \in [People -> People \cup {NoOne}]
    BY <1>10, <1>11, <2>1
  <2>3. \A p \in People : l0[p] \in Spouses(p)
    BY <1>9, <1>10, <1>11, <2>1
  <2> QED BY <2>2, <2>3 DEF Links
<1>13. l0[c.who] = c.from /\ db.link = [l0 EXCEPT ![c.who] = c.to] /\ Coupled(l0, db.maternity)
  BY <1>6, <1>7, <1>9, <1>10, <1>11 DEF Links
<1>14. PICK e \in Records : e = Synced(db, c.who, c.from, c.to) /\ Coupled(e.link, e.maternity)
  BY <1>6, <1>7, <1>9, <1>11, <1>12, <1>13, SyncKeepsCouples
<1>15. link' = e.link /\ maternity' = e.maternity /\ added' = added /\ starting' = starting
  BY <1>5, <1>14 DEF Stored
<1>16. link' \in Links /\ maternity' \in [Women -> Int]
  BY <1>14, <1>15 DEF Records
<1>17. Coupled(link, maternity)'
  BY <1>14, <1>15 DEF Coupled, Mutual, Short, Held
<1>18. admin[a] # Idle
  BY <1>1, <1>2 DEF Idle
<1>19. ~starting
  BY <1>18, OpenCallRuns
<1> QED BY <1>5, <1>6, <1>15, <1>16, <1>17, <1>19, IdleFits, CallGoesOn

\* A grant moves the change, and only if the wife has the days.
LEMMA GrantKeeps ==
  ASSUME OneAdmin, SpouseInv, NEW a \in Admins, Grant(a)
  PROVE  SpouseInv'
<1>1. PICK c : c = admin[a]
  OBVIOUS
<1>2. c \in Calls /\ c.pc = "grant"
  BY <1>1 DEF SpouseInv, Typed, Grant
<1>3. c.who \in Men /\ c.wife \in Women \cup {NoOne} /\ c.days \in Nat
  BY <1>2 DEF Calls
<1>4. PICK db : db = [link |-> link, maternity |-> maternity]
  OBVIOUS
<1>5. link \in Links /\ added \in [Men -> Nat] /\ maternity \in [Women -> Int]
  BY DEF SpouseInv, Typed
<1>6. db \in Records /\ db.link = link /\ db.maternity = maternity
  BY <1>4, <1>5 DEF Records
<1>7. CallFits(c)
  BY <1>1 DEF SpouseInv
<1>8. Coupled(link, maternity) /\ link[c.who] = c.wife
  BY <1>2, <1>7 DEF CallFits
<1>9. admin[a] # Idle
  BY <1>1, <1>2 DEF Idle
<1>10. ~starting
  BY <1>9, OpenCallRuns
<1>11. PICK days : days = c.days - added[c.who]
  OBVIOUS
<1>12. days \in Int /\ added[c.who] \in Nat
  BY <1>3, <1>5, <1>11
<1>13. CASE ~WifeCan(c.wife, days)
  <2>1. Goes(a, Idle) /\ UNCHANGED <<link, added, maternity, starting>>
    BY <1>1, <1>11, <1>13 DEF Grant, Transfer
  <2>2. Coupled(link, maternity)'
    BY <1>8, <2>1, CoupledStays DEF Books
  <2> QED BY <1>5, <1>10, <2>1, <2>2, IdleFits, CallGoesOn
<1>14. CASE WifeCan(c.wife, days)
  <2>1. /\ Goes(a, Idle) /\ UNCHANGED starting /\ added' = [added EXCEPT ![c.who] = c.days]
        /\ Stored(Shifted(db, c.wife, days))
    BY <1>1, <1>4, <1>11, <1>14 DEF Grant, Transfer
  <2>2. PICK e \in Records :
          /\ e = Shifted(db, c.wife, days) /\ e.link = db.link
          /\ \A w \in Women : e.maternity[w] =
                 IF w = c.wife THEN db.maternity[w] - days ELSE db.maternity[w]
    BY <1>3, <1>6, <1>12, ShiftedIs
  <2>3. link' = link /\ maternity' = e.maternity
    BY <1>6, <2>1, <2>2 DEF Stored
  <2>4. link' \in Links /\ maternity' \in [Women -> Int] /\ added' \in [Men -> Nat]
    BY <1>3, <1>5, <2>1, <2>2, <2>3 DEF Records
  <2>5. Mutual(link)'
    BY <1>8, <2>3 DEF Coupled, Mutual
  <2>6. c.who \in People /\ NoOne \notin People /\ NoOne \notin Men /\ Women \subseteq People
    BY <1>3, SpouseAssumption DEF People
  <2>7. Short(link, maternity)'
    <3> SUFFICES ASSUME NEW w \in Women PROVE (maternity[w] = MaternityDays - Held(link[w]))'
      BY DEF Short
    <3>1. maternity[w] = MaternityDays - Held(link[w]) /\ MaternityDays \in Nat
      BY <1>8, SpouseAssumption DEF Coupled, Short
    <3>2. CASE w = c.wife
      <4>1. link[w] = c.who /\ link'[w] = c.who
        BY <1>8, <2>3, <2>6, <3>2 DEF Coupled, Mutual
      <4>2. c.who # NoOne
        BY <1>3, <2>6
      <4>3. Held(link[w]) = added[c.who] /\ Held(link[w])' = c.days
        BY <1>3, <1>5, <2>1, <4>1, <4>2 DEF Held
      <4>4. maternity'[w] = maternity[w] - days
        BY <1>6, <2>2, <2>3, <3>2
      <4> QED BY <1>3, <1>11, <1>12, <3>1, <4>3, <4>4
    <3>3. CASE w # c.wife
      <4>1. link[w] # c.who
        BY <1>8, <2>6, <3>3 DEF Coupled, Mutual
      <4>2. link[w] \in Men \cup {NoOne}
        BY <1>5, <2>6, OppositeIs DEF Links
      <4>3. Held(link[w])' = Held(link[w])
        BY <1>3, <1>5, <2>1, <2>3, <4>1, <4>2 DEF Held
      <4>4. maternity'[w] = maternity[w]
        BY <1>6, <2>2, <2>3, <3>3
      <4> QED BY <3>1, <4>3, <4>4
    <3> QED BY <3>2, <3>3
  <2>8. Coupled(link, maternity)'
    BY <2>5, <2>7 DEF Coupled
  <2> QED BY <1>10, <2>1, <2>4, <2>8, IdleFits, CallGoesOn
<1> QED BY <1>13, <1>14

-----------------------------------------------------------------------------
\* The one-way couple of an earlier version becomes one linked both ways, its
\* days moved once.
LEMMA BackfillKeeps ==
  ASSUME SpouseInv, NEW p \in People, Backfill(p)
  PROVE  SpouseInv'
<1>1. /\ starting /\ link[p] # NoOne /\ link[link[p]] = NoOne
      /\ UNCHANGED <<added, admin, starting>>
  BY DEF Backfill, OneSided
<1>2. AllIdle /\ Typed /\ AllIdle'
  BY <1>1 DEF SpouseInv, AllIdle
<1>3. link \in Links /\ added \in [Men -> Nat] /\ maternity \in [Women -> Int] /\ MaternityDays \in Nat
  BY <1>2, SpouseAssumption DEF Typed
<1>4. p # NoOne
  BY OppositeIs
<1>5. OneWay
  BY <1>1, <1>2, <1>4 DEF SpouseInv, Coupled, Mutual
<1>6. PICK m \in Men, w \in Women :
        \/ /\ link = [NoLinks EXCEPT ![m] = w]
           /\ maternity = [AllDays EXCEPT ![w] = MaternityDays - added[m]]
        \/ link = [NoLinks EXCEPT ![w] = m] /\ maternity = AllDays
  BY <1>5 DEF OneWay, AllDays
<1>7. /\ m \in People /\ w \in People /\ m # w /\ m # NoOne /\ w # NoOne
      /\ m \in Spouses(w) /\ w \in Spouses(m) /\ m \notin Women /\ w \notin Men /\ NoOne \notin Women
      /\ NoOne \notin Men
  BY SpouseAssumption, OppositeIs DEF People
<1>8. PICK db : db = [link |-> link, maternity |-> maternity]
  OBVIOUS
<1>9. db \in Records /\ db.link = link /\ db.maternity = maternity
  BY <1>3, <1>8 DEF Records
<1>10. Stored(Relinked(db, link[p], p))
  BY <1>8 DEF Backfill
<1>11. added[m] \in Nat
  BY <1>3
\* Either way the couple is m and w, and w's days are short once.
<1>12. /\ \A q \in People : link'[q] = IF q = m THEN w ELSE IF q = w THEN m ELSE NoOne
       /\ \A v \in Women : maternity'[v] = IF v = w THEN MaternityDays - added[m] ELSE MaternityDays
       /\ link' \in Links /\ maternity' \in [Women -> Int]
  <2>1. CASE /\ link = [NoLinks EXCEPT ![m] = w]
             /\ maternity = [AllDays EXCEPT ![w] = MaternityDays - added[m]]
    <3>1. \A q \in People : link[q] = IF q = m THEN w ELSE NoOne
      BY <1>7, <2>1 DEF NoLinks
    <3>2. p = m /\ link[p] = w /\ link[w] = NoOne
      BY <1>1, <1>7, <3>1
    <3>3. PICK e, d \in Records :
            /\ e = Relinked(db, w, m)
            /\ d.link = [db.link EXCEPT ![w] = m] /\ d.maternity = db.maternity
            /\ MovesDays(d, e, w, db.link[w], m)
      BY <1>3, <1>7, <1>9, RelinkedIs
    <3>4. link' = e.link /\ maternity' = e.maternity
      BY <1>10, <3>2, <3>3 DEF Stored
    <3>5. link' = [link EXCEPT ![w] = m]
      BY <1>9, <3>3, <3>4 DEF MovesDays
    <3>6. \A v \in Women : maternity'[v] = maternity[v]
      BY <1>9, <3>3, <3>4 DEF MovesDays
    <3>7. \A v \in Women : maternity[v] = IF v = w THEN MaternityDays - added[m] ELSE MaternityDays
      BY <2>1 DEF AllDays
    <3>8. \A q \in People : link'[q] = IF q = w THEN m ELSE link[q]
      BY <1>3, <3>5 DEF Links
    <3> QED BY <1>7, <3>1, <3>3, <3>4, <3>6, <3>7, <3>8 DEF Records
  <2>2. CASE link = [NoLinks EXCEPT ![w] = m] /\ maternity = AllDays
    <3>1. \A q \in People : link[q] = IF q = w THEN m ELSE NoOne
      BY <1>7, <2>2 DEF NoLinks
    <3>2. p = w /\ link[p] = m /\ link[m] = NoOne
      BY <1>1, <1>7, <3>1
    <3>3. PICK e, d \in Records :
            /\ e = Relinked(db, m, w)
            /\ d.link = [db.link EXCEPT ![m] = w] /\ d.maternity = db.maternity
            /\ MovesDays(d, e, m, db.link[m], w)
      BY <1>3, <1>7, <1>9, RelinkedIs
    <3>4. link' = e.link /\ maternity' = e.maternity
      BY <1>10, <3>2, <3>3 DEF Stored
    <3>5. link' = [link EXCEPT ![m] = w]
      BY <1>9, <3>3, <3>4 DEF MovesDays
    <3>6. \A v \in Women : maternity'[v] = IF v = w THEN maternity[v] - added[m] ELSE maternity[v]
      BY <1>7, <1>9, <3>2, <3>3, <3>4 DEF MovesDays
    <3>7. \A v \in Women : maternity[v] = MaternityDays
      BY <2>2 DEF AllDays
    <3>8. \A q \in People : link'[q] = IF q = m THEN w ELSE link[q]
      BY <1>3, <3>5 DEF Links
    <3> QED BY <1>7, <3>1, <3>3, <3>4, <3>6, <3>7, <3>8 DEF Records
  <2> QED BY <1>6, <2>1, <2>2
<1>13. Mutual(link)'
  BY <1>7, <1>12 DEF Mutual
<1>14. Short(link, maternity)'
  <2> SUFFICES ASSUME NEW v \in Women PROVE (maternity[v] = MaternityDays - Held(link[v]))'
    BY DEF Short
  <2>1. v \in People /\ v # m
    BY <1>7 DEF People
  <2>2. CASE v = w
    BY <1>1, <1>7, <1>12, <2>1, <2>2 DEF Held
  <2>3. CASE v # w
    BY <1>3, <1>12, <2>1, <2>3 DEF Held
  <2> QED BY <2>2, <2>3
<1>15. Coupled(link, maternity)'
  BY <1>13, <1>14 DEF Coupled
<1>16. Typed'
  BY <1>1, <1>2, <1>12 DEF Typed
<1>17. \A a \in Admins : CallFits(admin[a])'
  <2> SUFFICES ASSUME NEW a \in Admins PROVE CallFits(admin[a])'
    OBVIOUS
  <2>1. admin'[a] = Idle
    BY <1>2 DEF AllIdle
  <2> QED BY <2>1 DEF CallFits, Idle
<1> QED BY <1>2, <1>15, <1>16, <1>17 DEF SpouseInv

LEMMA RestartKeeps ==
  ASSUME Undisturbed, SpouseInv, Restart
  PROVE  SpouseInv'
<1>1. AllIdle /\ AllIdle' /\ UNCHANGED Books /\ starting' = TRUE
  BY DEF Restart, AllIdle, Books
<1>2. link' = link /\ added' = added /\ maternity' = maternity
  BY <1>1 DEF Books
<1>3. Typed'
  BY <1>1, <1>2, IdleFits DEF SpouseInv, Typed, Restart
<1>4. Coupled(link, maternity) => Coupled(link, maternity)'
  BY <1>1, CoupledStays
<1>5. OneWay => OneWay'
  BY <1>2 DEF OneWay, NoLinks, AllDays
<1>6. \A a \in Admins : CallFits(admin[a])'
  <2> SUFFICES ASSUME NEW a \in Admins PROVE CallFits(admin[a])'
    OBVIOUS
  <2>1. admin'[a] = Idle
    BY <1>1 DEF AllIdle
  <2> QED BY <2>1 DEF CallFits, Idle
<1> QED BY <1>1, <1>3, <1>4, <1>5, <1>6 DEF SpouseInv

\* The backfill ends only when no one-way couple is left.
LEMMA BackfillEndsKeeps ==
  ASSUME SpouseInv, BackfillEnds
  PROVE  SpouseInv'
<1>1. starting /\ OneSided = {} /\ starting' = FALSE /\ UNCHANGED Books /\ UNCHANGED admin
  BY DEF BackfillEnds, Books
<1>2. AllIdle /\ AllIdle'
  BY <1>1 DEF SpouseInv, AllIdle
<1>3. link' = link /\ added' = added /\ maternity' = maternity
  BY <1>1 DEF Books
<1>4. ~OneWay
  <2> SUFFICES ASSUME OneWay PROVE FALSE
    OBVIOUS
  <2>1. PICK m \in Men, w \in Women : link = [NoLinks EXCEPT ![m] = w] \/ link = [NoLinks EXCEPT ![w] = m]
    BY DEF OneWay
  <2>2. m \in People /\ w \in People /\ m # w /\ m # NoOne /\ w # NoOne
    BY SpouseAssumption DEF People
  <2>3. CASE link = [NoLinks EXCEPT ![m] = w]
    <3>1. link[m] = w /\ link[w] = NoOne
      BY <2>2, <2>3 DEF NoLinks
    <3> QED BY <1>1, <2>2, <3>1 DEF OneSided
  <2>4. CASE link = [NoLinks EXCEPT ![w] = m]
    <3>1. link[w] = m /\ link[m] = NoOne
      BY <2>2, <2>4 DEF NoLinks
    <3> QED BY <1>1, <2>2, <3>1 DEF OneSided
  <2> QED BY <2>1, <2>3, <2>4
<1>5. Coupled(link, maternity)
  BY <1>2, <1>4 DEF SpouseInv
<1>6. Coupled(link, maternity)'
  BY <1>1, <1>5, CoupledStays
<1>7. \A a \in Admins : CallFits(admin[a])'
  <2> SUFFICES ASSUME NEW a \in Admins PROVE CallFits(admin[a])'
    OBVIOUS
  <2>1. admin'[a] = Idle
    BY <1>2 DEF AllIdle
  <2> QED BY <2>1 DEF CallFits, Idle
<1>8. Typed'
  BY <1>1, <1>3 DEF SpouseInv, Typed
<1> QED BY <1>1, <1>2, <1>6, <1>7, <1>8 DEF SpouseInv

LEMMA InitSpouseInv == Init => SpouseInv
<1> SUFFICES ASSUME Init PROVE SpouseInv
  OBVIOUS
<1>1. PICK m \in Men, w \in Women, days \in Grants :
        /\ added = [n \in Men |-> IF n = m THEN days ELSE 0]
        /\ OneWayCouple(m, w) \/ (link = NoLinks /\ maternity = AllDays)
  BY DEF Init
<1>2. /\ m \in People /\ w \in People /\ days \in Nat /\ NoOne \notin People /\ MaternityDays \in Nat
      /\ m \in Spouses(w) /\ w \in Spouses(m) /\ \A p \in People : NoOne \in Spouses(p)
  BY SpouseAssumption, OppositeIs DEF People
<1>3. AllIdle /\ starting = TRUE /\ admin \in [Admins -> Calls]
  BY IdleFits DEF Init, AllIdle
<1>4. added \in [Men -> Nat]
  BY <1>1, <1>2
<1>5. NoLinks \in Links
  BY <1>2 DEF NoLinks, Links
<1>6. link \in Links
  <2>1. link = NoLinks \/ link = [NoLinks EXCEPT ![m] = w] \/ link = [NoLinks EXCEPT ![w] = m]
    BY <1>1 DEF OneWayCouple
  <2> QED BY <1>2, <1>5, <2>1 DEF Links
<1>7. maternity \in [Women -> Int]
  <2>1. maternity = AllDays \/ maternity = [AllDays EXCEPT ![w] = MaternityDays - added[m]]
    BY <1>1 DEF OneWayCouple, AllDays
  <2>2. AllDays \in [Women -> Int] /\ MaternityDays - added[m] \in Int
    BY <1>2, <1>4 DEF AllDays
  <2> QED BY <2>1, <2>2
<1>8. Coupled(link, maternity) \/ OneWay
  <2>1. OneWayCouple(m, w) => OneWay
    BY DEF OneWayCouple, OneWay
  <2>2. link = NoLinks /\ maternity = AllDays => Coupled(link, maternity)
    BY <1>2 DEF NoLinks, AllDays, Coupled, Mutual, Short, Held, People
  <2> QED BY <1>1, <2>1, <2>2
<1>9. \A a \in Admins : CallFits(admin[a])
  BY <1>3, IdleFits DEF AllIdle, CallFits, Idle
<1> QED BY <1>3, <1>4, <1>6, <1>7, <1>8, <1>9 DEF SpouseInv, Typed

LEMMA NextSpouseInv ==
  ASSUME OneAdmin, Undisturbed, SpouseInv, Next
  PROVE  SpouseInv'
<1>1. ASSUME NEW a \in Admins, NEW p \in People, NEW to \in Opposite(p) \cup {NoOne},
             OpenRecord(a, p, to)
      PROVE  SpouseInv'
  BY <1>1, OpenRecordKeeps
<1>2. ASSUME NEW a \in Admins, NEW m \in Men, NEW days \in Grants, OpenGrant(a, m, days)
      PROVE  SpouseInv'
  BY <1>2, OpenGrantKeeps
<1>3. ASSUME NEW a \in Admins, SaveLink(a) PROVE SpouseInv'
  BY <1>3, SaveLinkKeeps
<1>4. ASSUME NEW a \in Admins, SyncLinks(a) PROVE SpouseInv'
  BY <1>4, SyncLinksKeeps
<1>5. ASSUME NEW a \in Admins, Grant(a) PROVE SpouseInv'
  BY <1>5, GrantKeeps
<1>6. CASE Restart
  BY <1>6, RestartKeeps
<1>7. CASE BackfillEnds
  BY <1>7, BackfillEndsKeeps
<1>8. ASSUME NEW p \in People, Backfill(p) PROVE SpouseInv'
  BY <1>8, BackfillKeeps
<1> QED BY <1>1, <1>2, <1>3, <1>4, <1>5, <1>6, <1>7, <1>8 DEF Next

LEMMA SpouseInvStutters ==
  ASSUME SpouseInv, UNCHANGED vars
  PROVE  SpouseInv'
<1>1. /\ link' = link /\ added' = added /\ maternity' = maternity
      /\ admin' = admin /\ starting' = starting
  BY DEF vars
<1>2. Coupled(link, maternity) => Coupled(link, maternity)'
  BY <1>1, CoupledStays DEF Books
<1>3. \A a \in Admins : CallFits(admin[a])'
  BY <1>1 DEF SpouseInv, CallFits, Coupled, Mutual, Short, Held
<1> QED BY <1>1, <1>2, <1>3 DEF SpouseInv, Typed, AllIdle, OneWay, NoLinks, AllDays

LEMMA SpouseSteps == OneAdmin /\ Undisturbed => (SpouseInv /\ [Next]_vars => SpouseInv')
BY NextSpouseInv, SpouseInvStutters

LEMMA SettledBooks == SpouseInv => LinksAreMutual /\ WifeIsShort
<1> SUFFICES ASSUME SpouseInv, Settled PROVE Coupled(link, maternity)
  BY DEF LinksAreMutual, WifeIsShort, Coupled, Mutual, Short, Held
<1> QED BY DEF Settled, SpouseInv, AllIdle

LEMMA SpouseBooks ==
  ASSUME OneAdmin, Undisturbed
  PROVE  Spec => []SpouseInv
<1>1. OneAdmin /\ Undisturbed
  OBVIOUS
<1>2. SpouseInv /\ [Next]_vars => SpouseInv'
  BY <1>1, SpouseSteps
<1> QED BY <1>2, InitSpouseInv, PTL DEF Spec

\* Whoever marries, parts or marries again, and in whatever order the records
\* are saved: between calls a link runs both ways (syncSpouseLinks).
THEOREM CouplesAreMutual ==
  ASSUME OneAdmin, Undisturbed
  PROVE  Spec => []LinksAreMutual
BY SpouseBooks, SettledBooks, PTL

\* Through links, grants and restarts, a wife's Maternity is short by exactly
\* what her linked husband holds of Added Paternity (movePaternityTransfer,
\* shiftMaternityDaysFromSpouse).
THEOREM HusbandsDaysComeOut ==
  ASSUME OneAdmin, Undisturbed
  PROVE  Spec => []WifeIsShort
BY SpouseBooks, SettledBooks, PTL
=============================================================================
