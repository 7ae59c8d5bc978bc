---------------------- MODULE FaceRegistration_proofs ----------------------
(***************************************************************************)
(* Why what is registered is what the admin has seen.                      *)
(*                                                                         *)
(* The guided capture (sections 1 to 4), for one attempt.  The page sends  *)
(* frames ahead of the verdicts on them and either side may go back to an  *)
(* earlier step, so the page and the server agree on a step only through   *)
(* the frames between them: those of the current generation continue what  *)
(* the server has taken, up to where the page stands (InLine).  The frames *)
(* before them are of older generations and will be dropped.  Whatever     *)
(* gives up an attempt also lets go of its session, and then no frame is   *)
(* sent.                                                                   *)
(*                                                                         *)
(* The delayed descriptor (section 5), for any number of admins, sessions  *)
(* and profiles.  enrolledAt identifies the photo: rows, saves under way   *)
(* and jobs that carry the same time carry the same photo, and every time  *)
(* is in the past.                                                         *)
(***************************************************************************)
EXTENDS GuidedCapture, FaceProfiles, TLAPS

-----------------------------------------------------------------------------
(***************************************************************************)
(* 1. One attempt and its session.                                         *)
(***************************************************************************)
OneAttempt == MaxAttempts = 1

FrameKinds == {"closed", "open", "right", "final"}
Pictures == Photos \cup {NoPhoto}
Frame == [kind : FrameKinds, photo : Photos, generation : Nat]

Held == [failure : BOOLEAN, verified : BOOLEAN, retry : {None, 2, 4, 5}, generation : Nat]

Standing ==
  [ at : {"unused", "asking", "step", "pausing", "judging", "ended"},
    step : StepNumbers, left : 0..PageRetries, awaits : {None, 1} ]

PageState ==
  [ going : BOOLEAN, busy : BOOLEAN, camera : BOOLEAN, shown : BOOLEAN, verifying : BOOLEAN,
    holds : {None, 1}, chain : {None, 1}, waiting : {None, 1}, verified : {None, 1},
    preview : Pictures,
    hold : [{1} -> Held], queue : [{1} -> Seq(Frame)], run : [{1} -> Standing] ]

SessionState ==
  [ kept : BOOLEAN, status : {"pending", "failed", "verified"}, received : 0..4,
    retries : Nat, closed : BOOLEAN, busy : BOOLEAN, late : BOOLEAN, final : Pictures,
    disorder : BOOLEAN ]

WireState ==
  [ at : {"idle", "sent", "judging", "answered"},
    answer : {"none", "error", "failed", "retry", "pending", "verified"} ]

\* The frames of the steps before step n.
Before(n) == IF n <= 2 THEN 0 ELSE IF n <= 4 THEN 2 ELSE IF n = 5 THEN 3 ELSE 4

\* The frames sent up to where an attempt stands.
SentBy(r) ==
  IF r.at = "step" THEN Before(r.step)
  ELSE IF r.at = "pausing" THEN Before(r.step + 1)
  ELSE 4

\* Where page and server go on: at the retry the page still has to make, if
\* there is one.
Agreed(p) == IF RetryHeld(p) = None THEN SentBy(p.run[1]) ELSE Before(RetryHeld(p))

Holding(p) == p.holds = 1 /\ ~p.hold[1].failure

\* The page has seen the verdicts on b frames; k frames of the queue are of
\* older generations, the others continue those b up to the n-th, and a final
\* frame among them shows the photo in the review.
Continues(q, g, photo, b, k, n) ==
  /\ b + (Len(q) - k) = n
  /\ \A i \in 1..Len(q) :
       IF i <= k THEN q[i].generation < g
       ELSE /\ q[i].generation = g /\ q[i].kind = Kinds[b + (i - k)]
            /\ q[i].kind = "final" => q[i].photo = photo

\* The server is there, too, or one frame ahead.
ServerAt(s, w, b) ==
  /\ w.at # "answered" => s.received = b
  /\ w.at = "answered" /\ w.answer \in {"pending", "verified"} => s.received = b + 1

InLine(q, g, photo, s, w, n) ==
  \E b \in 0..4 : \E k \in 0..Len(q) :
    /\ Continues(q, g, photo, b, k, n) /\ ServerAt(s, w, b)
    /\ w.at # "idle" => k = 0

PageInLine(p, s, w, n) == InLine(p.queue[1], p.hold[1].generation, p.preview, s, w, n)

\* The frame on its way is the one the server expects.
OnTheWire(q, s, w) ==
  /\ w.at # "idle" => q # <<>>
  /\ w.at \in {"sent", "judging"} => s.received < 4 /\ q[1].kind = Kinds[s.received + 1]
  /\ w.at = "judging" => s.status = "pending"
  /\ w.at = "answered" => w.answer # "none"
  /\ w.at = "answered" /\ w.answer = "retry" =>
       s.status = "pending" /\ s.received = Before(StepOf(q[1].kind))
  /\ w.at = "answered" /\ w.answer = "verified" => s.status = "verified"
  /\ s.status = "verified" => s.received = 4
  /\ s.busy => w.at = "judging" \/ ~s.kept
  /\ ~s.disorder

\* What holds of a page wherever its attempt stands.
Sound(p, s, w) ==
  /\ p \in PageState
  /\ OnTheWire(p.queue[1], s, w)
  /\ p.hold[1].verified => s.status = "verified"
  /\ p.holds = 1 => p.going

\* And, between two runs of the page's thread.
Settled(p, s, w) ==
  /\ Sound(p, s, w)
  /\ p.holds = 1 => p.run[1].at \in {"step", "pausing", "judging"}
  /\ p.waiting = 1 <=> p.run[1].at = "step"
  /\ p.waiting = 1 => RetryHeld(p) = None
  /\ p.run[1].at \in {"unused", "asking"} =>
       p.queue[1] = <<>> /\ w.at = "idle" /\ p.hold[1] = FreshHold
  /\ Holding(p) => PageInLine(p, s, w, Agreed(p))
  /\ Holding(p) /\ s.status = "verified" => s.final = p.preview /\ Agreed(p) = 4
  /\ p.verified = 1 => p.run[1].at = "ended" /\ s.status = "verified" /\ s.final = p.preview

CaptureInv ==
  /\ session \in [{1} -> SessionState] /\ wire \in [{1} -> WireState]
  /\ Settled(page, session[1], wire[1])

\* A page in the middle of a run of its thread: no step is waited for.
Midway(p, s, w) == Sound(p, s, w) /\ p.waiting = None /\ p.verified = None

-----------------------------------------------------------------------------
(***************************************************************************)
(* 2. Frames.                                                              *)
(***************************************************************************)
LEMMA OneIsAll == ASSUME OneAttempt PROVE Attempts = {1}
  BY DEF OneAttempt, Attempts

LEMMA KindsAre ==
  /\ Len(Kinds) = 4
  /\ Kinds[1] = "closed" /\ Kinds[2] = "open" /\ Kinds[3] = "right" /\ Kinds[4] = "final"
  BY DEF Kinds

LEMMA StepsAre ==
  /\ StepNumbers = 1..5 /\ Len(Steps) = 5
  /\ Steps[1] = "straight" /\ Steps[2] = "blink" /\ Steps[3] = "left" /\ Steps[4] = "right"
  /\ Steps[5] = "center"
  BY DEF StepNumbers, Steps

LEMMA StepOfKind ==
  ASSUME NEW kind \in FrameKinds
  PROVE  StepOf(kind) \in {2, 4, 5} /\ Before(StepOf(kind)) = FirstOf(kind)
  BY DEF FrameKinds, StepOf, FirstOf, Before

LEMMA AgreedType ==
  ASSUME NEW p \in PageState
  PROVE  /\ Agreed(p) \in 0..4
         /\ RetryHeld(p) # None => Agreed(p) < 4
  BY StepsAre DEF Agreed, RetryHeld, PageState, Held, Standing, SentBy, Before, None

\* A frame of the current generation at the end of the queue.
LEMMA LineGrows ==
  ASSUME NEW q \in Seq(Frame), NEW g \in Nat, NEW photo \in Photos, NEW s, NEW w, NEW n \in 0..3,
         InLine(q, g, photo, s, w, n), NEW kind \in FrameKinds, kind = Kinds[n + 1]
  PROVE  InLine(Append(q, [kind |-> kind, photo |-> photo, generation |-> g]),
                g, photo, s, w, n + 1)
<1>1. PICK b \in 0..4, k \in 0..Len(q) :
        Continues(q, g, photo, b, k, n) /\ ServerAt(s, w, b) /\ (w.at # "idle" => k = 0)
  BY DEF InLine
<1> DEFINE f == [kind |-> kind, photo |-> photo, generation |-> g]
           r == Append(q, f)
<1>2. /\ Len(r) = Len(q) + 1 /\ Len(q) \in Nat /\ r[Len(q) + 1] = f
      /\ \A i \in 1..Len(q) : r[i] = q[i]
  BY DEF Frame
<1>3. Continues(r, g, photo, b, k, n + 1)
  <2> HIDE DEF r
  <2>1. b + (Len(r) - k) = n + 1
    BY <1>1, <1>2 DEF Continues
  <2>2. ASSUME NEW i \in 1..Len(r)
        PROVE  IF i <= k THEN r[i].generation < g
               ELSE /\ r[i].generation = g /\ r[i].kind = Kinds[b + (i - k)]
                    /\ r[i].kind = "final" => r[i].photo = photo
    <3>1. CASE i \in 1..Len(q)
      BY <1>1, <1>2, <3>1 DEF Continues
    <3>2. CASE i = Len(q) + 1
      <4>1. r[i] = f /\ ~(i <= k) /\ b + (i - k) = n + 1
        BY <1>1, <1>2, <3>2 DEF Continues
      <4> QED BY <4>1
    <3> QED BY <1>2, <3>1, <3>2
  <2> QED BY <2>1, <2>2 DEF Continues
<1>4. k \in 0..Len(r)
  BY <1>2
<1> QED BY <1>1, <1>3, <1>4 DEF InLine

\* Before the last step no frame shows the photo in the review.
LEMMA NewPhotoInLine ==
  ASSUME NEW q \in Seq(Frame), NEW g, NEW photo, NEW other, NEW s, NEW w, NEW n \in 0..3,
         InLine(q, g, photo, s, w, n)
  PROVE  InLine(q, g, other, s, w, n)
<1>1. PICK b \in 0..4, k \in 0..Len(q) :
        Continues(q, g, photo, b, k, n) /\ ServerAt(s, w, b) /\ (w.at # "idle" => k = 0)
  BY DEF InLine
<1>2. ASSUME NEW i \in 1..Len(q), ~(i <= k)
      PROVE  q[i].kind # "final"
  <2>1. b + (i - k) \in 1..3
    BY <1>1, <1>2 DEF Continues
  <2> QED BY <1>1, <1>2, <2>1, KindsAre DEF Continues
<1>3. Continues(q, g, other, b, k, n)
  BY <1>1, <1>2 DEF Continues
<1> QED BY <1>1, <1>3 DEF InLine

\* The head of the queue goes: it was dropped as stale, or answered.
LEMMA TailFacts ==
  ASSUME NEW q \in Seq(Frame), q # <<>>
  PROVE  /\ Tail(q) \in Seq(Frame) /\ Len(Tail(q)) = Len(q) - 1 /\ Len(q) \in Nat \ {0}
         /\ \A i \in 1..(Len(q) - 1) : Tail(q)[i] = q[i + 1]
         /\ Head(q) = q[1] /\ q[1] \in Frame
  OBVIOUS

LEMMA StaleDropped ==
  ASSUME NEW q \in Seq(Frame), q # <<>>, NEW g \in Nat, NEW photo, NEW s, NEW w, NEW n \in 0..4,
         InLine(q, g, photo, s, w, n), q[1].generation # g
  PROVE  InLine(Tail(q), g, photo, s, w, n)
<1>1. PICK b \in 0..4, k \in 0..Len(q) :
        Continues(q, g, photo, b, k, n) /\ ServerAt(s, w, b) /\ (w.at # "idle" => k = 0)
  BY DEF InLine
<1>2. PICK t : t = Tail(q)
  OBVIOUS
<1>3. /\ Len(t) = Len(q) - 1 /\ Len(q) \in Nat \ {0} /\ \A i \in 1..Len(t) : t[i] = q[i + 1]
  BY <1>2, TailFacts
<1>4. k >= 1
  BY <1>1, <1>3 DEF Continues
<1>5. Continues(t, g, photo, b, k - 1, n)
  <2>1. b + (Len(t) - (k - 1)) = n
    BY <1>1, <1>3 DEF Continues
  <2>2. ASSUME NEW i \in 1..Len(t)
        PROVE  IF i <= k - 1 THEN t[i].generation < g
               ELSE /\ t[i].generation = g /\ t[i].kind = Kinds[b + (i - (k - 1))]
                    /\ t[i].kind = "final" => t[i].photo = photo
    <3>1. t[i] = q[i + 1] /\ i + 1 \in 1..Len(q) /\ (i + 1 <= k <=> i <= k - 1)
      BY <1>3, <2>2
    <3>2. (i + 1) - k = i - (k - 1)
      BY <2>2, <1>3
    <3> QED BY <1>1, <3>1, <3>2 DEF Continues
  <2> QED BY <2>1, <2>2 DEF Continues
<1>6. k - 1 \in 0..Len(t) /\ w.at = "idle"
  BY <1>1, <1>3, <1>4
<1> QED BY <1>1, <1>2, <1>5, <1>6 DEF InLine

\* What the head of the queue is when it is not stale.
LEMMA HeadContinues ==
  ASSUME NEW q \in Seq(Frame), q # <<>>, NEW g, NEW photo, NEW s, NEW w, NEW n \in 0..4,
         InLine(q, g, photo, s, w, n), q[1].generation = g, g \in Nat
  PROVE  \E b \in 0..3 :
           /\ Continues(q, g, photo, b, 0, n) /\ ServerAt(s, w, b)
           /\ q[1].kind = Kinds[b + 1] /\ (q[1].kind = "final" => q[1].photo = photo)
           /\ (q[1].kind = "final" => n = 4)
<1>1. PICK b \in 0..4, k \in 0..Len(q) :
        Continues(q, g, photo, b, k, n) /\ ServerAt(s, w, b) /\ (w.at # "idle" => k = 0)
  BY DEF InLine
<1>2. Len(q) \in Nat \ {0}
  BY TailFacts
<1>3. k = 0
  BY <1>1, <1>2 DEF Continues
<1>4. Continues(q, g, photo, b, 0, n) /\ b + Len(q) = n /\ b \in 0..3
  BY <1>1, <1>2, <1>3 DEF Continues
<1>5. q[1].kind = Kinds[b + 1] /\ (q[1].kind = "final" => q[1].photo = photo)
  BY <1>2, <1>4 DEF Continues
<1>6. ASSUME q[1].kind = "final" PROVE n = 4
  <2>1. b + 1 \in 1..4 /\ Kinds[b + 1] = "final"
    BY <1>4, <1>5, <1>6
  <2>2. b + 1 = 4
    BY <2>1, KindsAre
  <2> QED BY <1>2, <1>4, <2>2
<1> QED BY <1>1, <1>4, <1>5, <1>6

\* A frame that was taken is answered and gone.
LEMMA HeadTaken ==
  ASSUME NEW q \in Seq(Frame), q # <<>>, NEW g \in Nat, NEW photo, NEW s, NEW w, NEW v,
         NEW n \in 0..4, InLine(q, g, photo, s, w, n), w.at = "answered",
         w.answer \in {"pending", "verified"}, v.at = "idle"
  PROVE  InLine(Tail(q), g, photo, s, v, n)
<1>1. PICK b \in 0..4, k \in 0..Len(q) :
        Continues(q, g, photo, b, k, n) /\ ServerAt(s, w, b) /\ (w.at # "idle" => k = 0)
  BY DEF InLine
<1>2. PICK t : t = Tail(q)
  OBVIOUS
<1>3. /\ Len(t) = Len(q) - 1 /\ Len(q) \in Nat \ {0} /\ \A i \in 1..Len(t) : t[i] = q[i + 1]
  BY <1>2, TailFacts
<1>4. k = 0 /\ b + Len(q) = n /\ b + 1 \in 0..4 /\ s.received = b + 1
  BY <1>1, <1>3 DEF Continues, ServerAt
<1>5. Continues(t, g, photo, b + 1, 0, n)
  <2>1. (b + 1) + (Len(t) - 0) = n
    BY <1>3, <1>4
  <2>2. ASSUME NEW i \in 1..Len(t)
        PROVE  /\ ~(i <= 0) /\ t[i].generation = g /\ t[i].kind = Kinds[(b + 1) + (i - 0)]
               /\ t[i].kind = "final" => t[i].photo = photo
    <3>1. t[i] = q[i + 1] /\ i + 1 \in 1..Len(q) /\ ~(i + 1 <= k) /\ ~(i <= 0)
      BY <1>3, <1>4, <2>2
    <3>2. b + ((i + 1) - k) = (b + 1) + (i - 0)
      BY <1>4, <2>2, <1>3
    <3> QED BY <1>1, <3>1, <3>2 DEF Continues
  <2> QED BY <2>1, <2>2 DEF Continues
<1>6. ServerAt(s, v, b + 1) /\ 0 \in 0..Len(t)
  BY <1>3, <1>4 DEF ServerAt
<1> QED BY <1>2, <1>4, <1>5, <1>6 DEF InLine

\* After a retry every frame that was waiting is of an older generation.
LEMMA LineRestarts ==
  ASSUME NEW q \in Seq(Frame), NEW g \in Nat, NEW photo, NEW s, NEW w, NEW v, NEW n \in 0..4,
         q # <<>>, InLine(q, g, photo, s, w, n), w.at = "answered", v.at = "idle", 
         s.received \in 0..4
  PROVE  InLine(Tail(q), g + 1, photo, s, v, s.received)
<1>1. PICK b \in 0..4, k \in 0..Len(q) :
        Continues(q, g, photo, b, k, n) /\ ServerAt(s, w, b) /\ (w.at # "idle" => k = 0)
  BY DEF InLine
<1>2. PICK t : t = Tail(q)
  OBVIOUS
<1>3. /\ Len(t) = Len(q) - 1 /\ Len(q) \in Nat \ {0} /\ \A i \in 1..Len(t) : t[i] = q[i + 1]
  BY <1>2, TailFacts
<1>4. ASSUME NEW i \in 1..Len(t) PROVE i <= Len(t) /\ t[i].generation < g + 1
  <2>1. t[i] = q[i + 1] /\ i + 1 \in 1..Len(q) /\ ~(i + 1 <= k)
    BY <1>1, <1>3, <1>4
  <2>2. t[i].generation = g
    BY <1>1, <2>1 DEF Continues
  <2> QED BY <1>3, <2>2
<1>5. Continues(t, g + 1, photo, s.received, Len(t), s.received) /\ Len(t) \in 0..Len(t)
  BY <1>3, <1>4 DEF Continues
<1>6. ServerAt(s, v, s.received)
  BY DEF ServerAt
<1> QED BY <1>2, <1>5, <1>6 DEF InLine

-----------------------------------------------------------------------------
(***************************************************************************)
(* 3. What a run of the page's thread leaves.                              *)
(***************************************************************************)
\* What no function of the page changes but the two that say so.
Keeps(p, r) == r.queue = p.queue /\ r.hold = p.hold

LEMMA PageType ==
  ASSUME NEW p \in PageState
  PROVE  /\ p.queue[1] \in Seq(Frame) /\ p.hold[1] \in Held /\ p.run[1] \in Standing
         /\ p.hold[1].generation \in Nat /\ p.hold[1].retry \in {None, 2, 4, 5}
         /\ p.hold[1].failure \in BOOLEAN
         /\ p.run[1].step \in 1..5 /\ p.run[1].left \in 0..PageRetries
         /\ p.holds \in {None, 1} /\ p.waiting \in {None, 1} /\ p.verified \in {None, 1}
         /\ p.preview \in Pictures /\ p.chain \in {None, 1}
  BY StepsAre DEF PageState, Held, Standing

LEMMA HoldReplaced ==
  ASSUME NEW p \in PageState, NEW h \in Held
  PROVE  LET r == [p EXCEPT !.hold = [@ EXCEPT ![1] = h]]
         IN  /\ r \in PageState /\ r.hold[1] = h /\ r.queue = p.queue /\ r.run = p.run
             /\ r.holds = p.holds /\ r.waiting = p.waiting /\ r.verified = p.verified
             /\ r.preview = p.preview /\ r.going = p.going
  BY DEF PageState

LEMMA ReturnedIs ==
  ASSUME NEW p \in PageState
  PROVE  LET r == Returned(p, 1)
         IN  /\ r \in PageState /\ Keeps(p, r) /\ r.run[1].at = "ended"
             /\ r.holds = p.holds /\ r.waiting = p.waiting /\ r.verified = p.verified
             /\ r.preview = p.preview /\ r.going = p.going
  BY DEF Returned, PageState, Standing, Keeps

LEMMA ReturnedSettles ==
  ASSUME NEW p, NEW s, NEW w, Midway(p, s, w), p.holds = None
  PROVE  Settled(Returned(p, 1), s, w)
<1>1. p \in PageState
  BY DEF Midway, Sound
<1> QED BY <1>1, ReturnedIs DEF Midway, Sound, Settled, Keeps, Holding, None

LEMMA FailedSettles ==
  ASSUME NEW p, NEW s, NEW w, Midway(p, s, w)
  PROVE  Settled(Failed(p, 1), s, w)
<1> DEFINE r == [p EXCEPT !.going = FALSE, !.holds = None, !.verifying = FALSE,
                          !.preview = NoPhoto, !.shown = TRUE]
<1>1. p \in PageState
  BY DEF Midway, Sound
<1>2. /\ r \in PageState /\ Keeps(p, r) /\ r.holds = None
      /\ r.waiting = p.waiting /\ r.verified = p.verified
  BY <1>1 DEF PageState, Keeps, Pictures
<1>3. Midway(r, s, w)
  BY <1>2 DEF Midway, Sound, Keeps, None
<1> QED BY <1>2, <1>3, ReturnedSettles DEF Failed

LEMMA ThrownSettles ==
  ASSUME NEW p, NEW s, NEW w, Midway(p, s, w)
  PROVE  Settled(Thrown(p, 1), s, w)
<1>1. CASE p.going
  BY <1>1, FailedSettles DEF Thrown
<1>2. CASE ~p.going
  <2>1. p.holds = None
    BY <1>2 DEF Midway, Sound, PageState
  <2> QED BY <1>2, <2>1, ReturnedSettles DEF Thrown
<1> QED BY <1>1, <1>2

\* A step is waited for when page and server agree on it.
LEMMA WaitingSettles ==
  ASSUME NEW p, NEW s, NEW w, Midway(p, s, w), RetryHeld(p) = None, NEW step \in 1..5,
         Holding(p) => PageInLine(p, s, w, Before(step)) /\ s.status # "verified"
  PROVE  Settled(Waiting(p, 1, step), s, w)
<1> DEFINE r == Waiting(p, 1, step)
<1>1. p \in PageState
  BY DEF Midway, Sound
<1>2. /\ r \in PageState /\ Keeps(p, r) /\ r.run[1].at = "step" /\ r.run[1].step = step
      /\ r.holds = p.holds /\ r.waiting = 1 /\ r.verified = p.verified
      /\ r.preview = p.preview /\ r.going = p.going
  <2>1. PICK u : u = [p.run[1] EXCEPT !.at = "step", !.step = step]
    OBVIOUS
  <2>2. u \in Standing /\ u.at = "step" /\ u.step = step
    BY <1>1, <2>1, PageType, StepsAre DEF Standing
  <2>3. r = [p EXCEPT !.run = [@ EXCEPT ![1] = u], !.waiting = 1, !.shown = TRUE]
    BY <1>1, <2>1 DEF Waiting, PageState, Standing
  <2> HIDE DEF r
  <2> QED BY <1>1, <2>2, <2>3 DEF PageState, Keeps
<1>3. RetryHeld(r) = None /\ Holding(r) = Holding(p)
  BY <1>2 DEF RetryHeld, Holding, Keeps
<1>4. Agreed(r) = Before(step)
  BY <1>2, <1>3 DEF Agreed, SentBy
<1> HIDE DEF r
<1>5. Settled(r, s, w)
  BY <1>2, <1>3, <1>4 DEF Midway, Sound, Settled, Keeps, PageInLine, None
<1> QED BY <1>5 DEF r

LEMMA RedoSettles ==
  ASSUME NEW p, NEW s, NEW w, Midway(p, s, w), NEW step \in 1..5,
         Holding(p) => PageInLine(p, s, w, Before(step)) /\ s.status # "verified"
  PROVE  Settled(Redo(p, 1, step), s, w)
<1> DEFINE cleared == IF p.holds = None THEN p ELSE [p EXCEPT !.hold[p.holds].retry = None]
           again == [cleared EXCEPT !.run[1].left = LeftAfterRedo(@), !.verifying = FALSE]
<1>1. p \in PageState
  BY DEF Midway, Sound
<1>2. CASE ~p.going
  <2>1. p.holds = None
    BY <1>1, <1>2 DEF Midway, Sound, PageState
  <2> QED BY <1>2, <2>1, ReturnedSettles DEF Redo
<1>3. CASE p.going /\ (Spent(p, 1) \/ FailureHeld(p))
  BY <1>3, FailedSettles DEF Redo
<1>4. CASE p.going /\ ~(Spent(p, 1) \/ FailureHeld(p))
  <2>1. p.run[1].left \in 1..PageRetries
    BY <1>1, <1>4, PageType, GuidedCaptureAssumption DEF Spent
  <2>2. /\ cleared \in PageState /\ cleared.queue = p.queue /\ cleared.run = p.run
        /\ cleared.holds = p.holds /\ cleared.waiting = p.waiting
        /\ cleared.verified = p.verified /\ cleared.preview = p.preview
        /\ cleared.going = p.going
        /\ cleared.hold[1].failure = p.hold[1].failure
        /\ cleared.hold[1].verified = p.hold[1].verified
        /\ cleared.hold[1].generation = p.hold[1].generation
        /\ cleared.holds = 1 => cleared.hold[1].retry = None
    <3>1. CASE p.holds = None
      BY <1>1, <3>1 DEF None
    <3>2. CASE p.holds = 1
      <4>1. PICK h : h = [p.hold[1] EXCEPT !.retry = None]
        OBVIOUS
      <4>2. /\ h \in Held /\ h.retry = None /\ h.failure = p.hold[1].failure
            /\ h.verified = p.hold[1].verified /\ h.generation = p.hold[1].generation
        BY <1>1, <4>1, PageType DEF Held
      <4>3. cleared = [p EXCEPT !.hold = [@ EXCEPT ![1] = h]]
        BY <1>1, <3>2, <4>1 DEF PageState, Held, None
      <4> HIDE DEF cleared
      <4> QED BY <1>1, <4>2, <4>3 DEF PageState
    <3> QED BY <1>1, <3>1, <3>2, PageType
  <2> HIDE DEF cleared
  <2>3. /\ again \in PageState /\ again.queue = cleared.queue /\ again.hold = cleared.hold
        /\ again.holds = cleared.holds /\ again.waiting = cleared.waiting
        /\ again.verified = cleared.verified /\ again.preview = cleared.preview
        /\ again.going = cleared.going
    <3>1. PICK u : u = [cleared.run[1] EXCEPT !.left = LeftAfterRedo(@)]
      OBVIOUS
    <3>2. u \in Standing
      <4>1. cleared.run[1] \in Standing /\ cleared.run[1].left \in 1..PageRetries
        BY <2>1, <2>2, PageType
      <4> QED BY <3>1, <4>1, GuidedCaptureAssumption DEF Standing, LeftAfterRedo
    <3>3. again = [cleared EXCEPT !.run = [@ EXCEPT ![1] = u], !.verifying = FALSE]
      BY <2>2, <3>1 DEF PageState, Standing
    <3> HIDE DEF again
    <3> QED BY <2>2, <3>2, <3>3 DEF PageState
  <2> HIDE DEF again
  <2>4. Midway(again, s, w)
    BY <2>2, <2>3 DEF Midway, Sound
  <2>5. RetryHeld(again) = None
    BY <1>1, <2>2, <2>3, PageType DEF RetryHeld
  <2>6. Holding(again) => PageInLine(again, s, w, Before(step)) /\ s.status # "verified"
    BY <2>2, <2>3 DEF Holding, PageInLine
  <2>7. Settled(Waiting(again, 1, step), s, w)
    BY <2>4, <2>5, <2>6, WaitingSettles
  <2>8. Redo(p, 1, step) = Waiting(again, 1, step)
    BY <1>4 DEF Redo, cleared, again
  <2> QED BY <2>7, <2>8
<1> QED BY <1>2, <1>3, <1>4

LEMMA UnlessSettles ==
  ASSUME NEW p, NEW s, NEW w, Midway(p, s, w), NEW next,
         Holding(p) /\ RetryHeld(p) # None =>
           PageInLine(p, s, w, Before(RetryHeld(p))) /\ s.status # "verified",
         ~FailureHeld(p) /\ RetryHeld(p) = None => Settled(next, s, w)
  PROVE  Settled(Unless(p, 1, next), s, w)
<1>1. CASE FailureHeld(p)
  BY <1>1, ThrownSettles DEF Unless
<1>2. CASE ~FailureHeld(p) /\ RetryHeld(p) # None
  <2>1. p \in PageState /\ RetryHeld(p) \in 1..5
    BY <1>2, PageType DEF Midway, Sound, RetryHeld, None
  <2> QED BY <1>2, <2>1, RedoSettles DEF Unless
<1>3. CASE ~FailureHeld(p) /\ RetryHeld(p) = None
  BY <1>3 DEF Unless
<1> QED BY <1>1, <1>2, <1>3

LEMMA LoopTopSettles ==
  ASSUME NEW p, NEW s, NEW w, Midway(p, s, w), NEW step \in 1..5,
         Holding(p) => s.status # "verified",
         Holding(p) => PageInLine(p, s, w, IF RetryHeld(p) = None THEN Before(step)
                                           ELSE Before(RetryHeld(p)))
  PROVE  Settled(LoopTop(p, 1, step), s, w)
<1>1. CASE ~p.going
  <2>1. p.holds = None
    BY <1>1 DEF Midway, Sound, PageState
  <2> QED BY <1>1, <2>1, ReturnedSettles DEF LoopTop
<1>2. CASE p.going
  <2>1. RetryHeld(p) = None => Settled(Waiting(p, 1, step), s, w)
    BY WaitingSettles
  <2>2. Settled(Unless(p, 1, Waiting(p, 1, step)), s, w)
    BY <2>1, UnlessSettles
  <2> QED BY <1>2, <2>2 DEF LoopTop
<1> QED BY <1>1, <1>2

-----------------------------------------------------------------------------
\* Whatever closes an attempt from outside lets go of its session.
Closed(p, r) ==
  /\ r \in PageState /\ Keeps(p, r) /\ r.holds = None /\ r.waiting = None
  /\ r.run[1].at = (IF p.waiting = 1 THEN "ended" ELSE p.run[1].at)
  /\ r.verified = None \/ (r.verified = p.verified /\ r.preview = p.preview)

LEMMA ClosedSettles ==
  ASSUME NEW p, NEW s, NEW w, Settled(p, s, w), NEW r, Closed(p, r)
  PROVE  Settled(r, s, w)
<1>1. p \in PageState
  BY DEF Settled, Sound
<1>2. Sound(r, s, w)
  BY DEF Settled, Sound, Closed, Keeps, None
<1>3. r.run[1].at # "step"
  BY <1>1, PageType DEF Closed, Settled
<1>4. r.run[1].at \in {"unused", "asking"} => p.run[1].at \in {"unused", "asking"}
  BY DEF Closed
<1> QED BY <1>1, <1>2, <1>3, <1>4, PageType DEF Settled, Closed, Keeps, Holding, None

LEMMA ClearIs ==
  ASSUME NEW p \in PageState
  PROVE  LET r == ClearLiveness([p EXCEPT !.going = FALSE])
         IN  /\ Closed(p, r) /\ r.verified = p.verified /\ r.preview = p.preview
             /\ r.going = FALSE
<1> DEFINE q == [p EXCEPT !.going = FALSE]
<1>1. /\ q \in PageState /\ Keeps(p, q) /\ q.going = FALSE /\ q.waiting = p.waiting
      /\ q.verified = p.verified /\ q.preview = p.preview /\ q.run = p.run
  BY DEF PageState, Keeps
<1> HIDE DEF q
<1>2. PICK c : c = Cancelled(q)
  OBVIOUS
<1>3. /\ c \in PageState /\ Keeps(p, c) /\ c.going = FALSE /\ c.waiting = None
      /\ c.verified = p.verified /\ c.preview = p.preview
      /\ c.run[1].at = (IF p.waiting = 1 THEN "ended" ELSE p.run[1].at)
  <2>1. CASE q.waiting = None
    BY <1>1, <1>2, <2>1 DEF Cancelled, None
  <2>2. CASE q.waiting = 1
    <3>1. PICK t : t = [q EXCEPT !.waiting = None]
      OBVIOUS
    <3>2. /\ t \in PageState /\ Keeps(p, t) /\ t.going = FALSE /\ t.waiting = None
          /\ t.verified = p.verified /\ t.preview = p.preview
      BY <1>1, <3>1 DEF PageState, Keeps
    <3>3. c = Returned(t, 1)
      BY <1>2, <2>2, <3>1 DEF Cancelled, None
    <3> QED BY <1>1, <2>2, <3>2, <3>3, ReturnedIs DEF Keeps
  <2> QED BY <1>1, <2>1, <2>2, PageType
<1>4. PICK r : r = [c EXCEPT !.holds = None, !.verifying = FALSE, !.shown = FALSE]
  OBVIOUS
<1>5. /\ r \in PageState /\ Keeps(p, r) /\ r.holds = None /\ r.waiting = None
      /\ r.going = FALSE /\ r.verified = p.verified /\ r.preview = p.preview
      /\ r.run = c.run
  BY <1>3, <1>4 DEF PageState, Keeps
<1>6. r = ClearLiveness(q)
  BY <1>2, <1>4 DEF ClearLiveness
<1> QED BY <1>3, <1>5, <1>6 DEF Closed, q

LEMMA StopCameraIs ==
  ASSUME NEW p \in PageState
  PROVE  LET r == StopCamera(p)
         IN  Closed(p, r) /\ r.verified = p.verified /\ r.preview = p.preview
<1>1. PICK c : c = ClearLiveness([p EXCEPT !.going = FALSE])
  OBVIOUS
<1>2. Closed(p, c) /\ c.verified = p.verified /\ c.preview = p.preview
  BY <1>1, ClearIs
<1> QED BY <1>1, <1>2 DEF StopCamera, Closed, Keeps, PageState

LEMMA ResetCaptureIs ==
  ASSUME NEW p \in PageState
  PROVE  Closed(p, ResetCapture(p))
<1>1. PICK c : c = ClearLiveness([p EXCEPT !.going = FALSE])
  OBVIOUS
<1>2. Closed(p, c)
  BY <1>1, ClearIs
<1> QED BY <1>1, <1>2 DEF ResetCapture, Closed, Keeps, PageState, Pictures

-----------------------------------------------------------------------------
(***************************************************************************)
(* 4. The steps of page, wire and server.                                  *)
(***************************************************************************)
LEMMA InvType ==
  ASSUME CaptureInv
  PROVE  /\ page \in PageState /\ session[1] \in SessionState /\ wire[1] \in WireState
         /\ Sound(page, session[1], wire[1]) /\ OnTheWire(page.queue[1], session[1], wire[1])
  BY DEF CaptureInv, Settled, Sound

\* The attempt runs on from an await that is not a step.
LEMMA RunsOn ==
  ASSUME CaptureInv, page.run[1].at \in {"asking", "pausing", "judging"}
  PROVE  /\ Midway(page, session[1], wire[1])
         /\ Holding(page) => PageInLine(page, session[1], wire[1], Agreed(page))
         /\ Holding(page) /\ Agreed(page) < 4 => session[1].status # "verified"
  BY InvType, PageType DEF CaptureInv, Settled, Midway, None

\* The attempt runs on from a step.
LEMMA StepOver ==
  ASSUME CaptureInv, page.waiting = 1
  PROVE  LET p == [page EXCEPT !.waiting = None]
             n == Before(page.run[1].step)
         IN  /\ Midway(p, session[1], wire[1]) /\ RetryHeld(p) = None
             /\ page.run[1].at = "step" /\ page.run[1].step \in 1..5 /\ n \in 0..3
             /\ Holding(p) => PageInLine(p, session[1], wire[1], n)
                               /\ session[1].status # "verified"
<1> DEFINE p == [page EXCEPT !.waiting = None]
<1>1. /\ p \in PageState /\ Keeps(page, p) /\ p.waiting = None /\ p.holds = page.holds
      /\ p.verified = page.verified /\ p.preview = page.preview /\ p.going = page.going
  BY InvType DEF PageState, Keeps
<1> HIDE DEF p
<1>2. /\ page.run[1].at = "step" /\ page.run[1].step \in 1..5 /\ RetryHeld(page) = None
      /\ page.verified = None
  BY InvType, PageType DEF CaptureInv, Settled
<1>3. Before(page.run[1].step) \in 0..3 /\ Agreed(page) = Before(page.run[1].step)
  BY <1>2 DEF Before, Agreed, SentBy
<1>4. RetryHeld(p) = None /\ Holding(p) = Holding(page)
  BY <1>1, <1>2 DEF RetryHeld, Holding, Keeps
<1>5. Midway(p, session[1], wire[1])
  BY <1>1, <1>2, InvType DEF Midway, Sound, Keeps
<1>6. Holding(p) => PageInLine(p, session[1], wire[1], Before(page.run[1].step))
                     /\ session[1].status # "verified"
  BY <1>1, <1>3, <1>4 DEF CaptureInv, Settled, PageInLine, Keeps
<1> QED BY <1>2, <1>3, <1>4, <1>5, <1>6 DEF p

LEMMA AdminKeeps == ASSUME OneAttempt, CaptureInv, Admin PROVE CaptureInv'
<1>1. session' = session /\ wire' = wire
  BY DEF Admin, StartCamera, Reset, Retake, CameraLost, Start, Server
<1>2. page \in PageState /\ Settled(page, session[1], wire[1])
  BY InvType DEF CaptureInv
<1>3. Settled(page', session[1], wire[1])
  <2>1. CASE StartCamera
    <3>1. PICK c : c = StopCamera(page)
      OBVIOUS
    <3>2. Closed(page, c) /\ page' = [c EXCEPT !.camera = TRUE, !.verified = None,
                                               !.preview = NoPhoto]
      BY <1>2, <2>1, <3>1, StopCameraIs DEF StartCamera
    <3>3. Closed(page, page')
      BY <3>2 DEF Closed, Keeps, PageState, Pictures
    <3> QED BY <1>2, <3>3, ClosedSettles
  <2>2. CASE Reset
    BY <1>2, <2>2, ResetCaptureIs, ClosedSettles DEF Reset
  <2>3. CASE Retake
    <3>1. PICK c : c = StopCamera(page)
      OBVIOUS
    <3>2. Closed(page, c) /\ page' = ResetCapture(c)
      BY <1>2, <2>3, <3>1, StopCameraIs DEF Retake
    <3>3. Settled(c, session[1], wire[1]) /\ c \in PageState
      BY <1>2, <3>2, ClosedSettles DEF Closed
    <3> QED BY <3>2, <3>3, ResetCaptureIs, ClosedSettles
  <2>4. CASE CameraLost
    BY <1>2, <2>4, StopCameraIs, ClosedSettles DEF CameraLost
  <2>5. ASSUME NEW a \in Attempts, Start(a) PROVE Settled(page', session[1], wire[1])
    <3>1. page.run[1].at = "unused"
      BY <2>5, OneIsAll DEF Start, Unused
    <3>2. page' = [page EXCEPT !.going = TRUE, !.busy = TRUE, !.preview = NoPhoto,
                               !.verified = None, !.run[1].at = "asking"]
      BY <2>5, OneIsAll DEF Start
    <3>3. /\ page' \in PageState /\ Keeps(page, page') /\ page'.run[1].at = "asking"
          /\ page'.verified = None /\ page'.holds = page.holds /\ page'.waiting = page.waiting
      <4>1. PICK u : u = [page.run[1] EXCEPT !.at = "asking"]
        OBVIOUS
      <4>2. u \in Standing /\ u.at = "asking"
        BY <1>2, <4>1, PageType DEF Standing
      <4>3. page' = [page EXCEPT !.going = TRUE, !.busy = TRUE, !.preview = NoPhoto,
                                 !.verified = None, !.run = [@ EXCEPT ![1] = u]]
        BY <1>2, <3>2, <4>1 DEF PageState, Standing
      <4> QED BY <1>2, <4>2, <4>3 DEF PageState, Pictures, Keeps
    <3>4. page.holds = None /\ page.waiting = None
      BY <1>2, <3>1, PageType DEF Settled
    <3> QED BY <1>2, <3>1, <3>3, <3>4 DEF Settled, Sound, Keeps, Holding, None
  <2> QED BY <2>1, <2>2, <2>3, <2>4, <2>5 DEF Admin
<1> QED BY <1>1, <1>3 DEF CaptureInv

LEMMA SessionOpensKeeps ==
  ASSUME OneAttempt, CaptureInv, SessionOpens(1)
  PROVE  CaptureInv'
<1>1. PICK s : s = [NoSession EXCEPT !.kept = TRUE]
  OBVIOUS
<1>2. /\ s \in SessionState /\ s.received = 0 /\ s.status = "pending" /\ ~s.busy
      /\ ~s.disorder /\ s.kept
  <2>1. /\ NoSession \in SessionState /\ NoSession.received = 0 /\ NoSession.status = "pending"
        /\ ~NoSession.busy /\ ~NoSession.disorder
    BY DEF NoSession, SessionState, Pictures
  <2> QED BY <1>1, <2>1 DEF SessionState
<1>3. /\ session' \in [{1} -> SessionState] /\ session'[1] = s /\ wire' = wire
  BY <1>1, <1>2, OneIsAll DEF SessionOpens, Created
<1>4. /\ page \in PageState /\ page.run[1].at = "asking" /\ page.queue[1] = <<>>
      /\ wire[1].at = "idle" /\ page.hold[1] = FreshHold /\ page.holds = None
      /\ page.waiting = None /\ page.verified = None
  BY InvType, PageType DEF SessionOpens, CaptureInv, Settled, None
<1>5. OnTheWire(page.queue[1], s, wire[1])
  BY <1>2, <1>4 DEF OnTheWire
<1>6. Midway(page, s, wire[1])
  BY <1>4, <1>5 DEF Midway, Sound, FreshHold, None
<1>7. Settled(page', s, wire[1])
  <2>1. CASE ~page.going
    BY <1>4, <1>6, <2>1, ReturnedSettles DEF SessionOpens
  <2>2. CASE page.going
    <3>1. PICK p : p = [page EXCEPT !.holds = 1, !.chain = 1]
      OBVIOUS
    <3>2. /\ p \in PageState /\ Keeps(page, p) /\ p.holds = 1 /\ p.going
          /\ p.waiting = None /\ p.verified = None /\ p.preview = page.preview
      BY <1>4, <2>2, <3>1 DEF PageState, Keeps
    <3>3. Midway(p, s, wire[1])
      BY <1>4, <1>5, <3>2 DEF Midway, Sound, Keeps, FreshHold
    <3>4. RetryHeld(p) = None
      BY <1>4, <3>2 DEF RetryHeld, Keeps, FreshHold
    <3>5. InLine(<<>>, 0, p.preview, s, wire[1], 0)
      <4>1. Continues(<<>>, 0, p.preview, 0, 0, 0)
        BY DEF Continues
      <4>2. ServerAt(s, wire[1], 0)
        BY <1>2, <1>4 DEF ServerAt
      <4> QED BY <4>1, <4>2 DEF InLine
    <3>6. PageInLine(p, s, wire[1], Before(1))
      BY <1>4, <3>2, <3>5 DEF PageInLine, Keeps, FreshHold, Before
    <3>7. Settled(LoopTop(p, 1, 1), s, wire[1])
      BY <1>2, <3>3, <3>4, <3>6, LoopTopSettles
    <3> QED BY <2>2, <3>1, <3>7 DEF SessionOpens
  <2> QED BY <2>1, <2>2
<1> QED BY <1>3, <1>7 DEF CaptureInv

LEMMA PageStepKeeps ==
  ASSUME CaptureInv, session' = session, wire' = wire,
         Settled(page', session[1], wire[1])
  PROVE  CaptureInv'
  BY DEF CaptureInv

\* A frame of the step that was done goes behind the others.
LEMMA SubmitIs ==
  ASSUME NEW p, NEW s, NEW w, Midway(p, s, w), RetryHeld(p) = None, NEW n \in 0..3,
         Holding(p) => PageInLine(p, s, w, n),
         NEW kind \in FrameKinds, kind = Kinds[n + 1], NEW photo \in Photos,
         kind = "final" => p.preview = photo
  PROVE  LET r == Submit(p, kind, photo)
         IN  /\ Midway(r, s, w) /\ RetryHeld(r) = None /\ Holding(r) = Holding(p)
             /\ Holding(r) => PageInLine(r, s, w, n + 1)
             /\ r.run = p.run /\ r.hold = p.hold /\ r.preview = p.preview
<1>1. p \in PageState
  BY DEF Midway, Sound
<1>2. CASE p.holds = None
  BY <1>2 DEF Submit, Holding, None
<1>3. CASE p.holds = 1
  <2> DEFINE q == p.queue[1]
             f == [kind |-> kind, photo |-> photo, generation |-> p.hold[1].generation]
             r == Submit(p, kind, photo)
  <2>1. r = [p EXCEPT !.queue[1] = Append(@, f)]
    BY <1>3 DEF Submit, None
  <2>2. q \in Seq(Frame) /\ f \in Frame /\ p.hold[1].generation \in Nat
    BY <1>1, PageType DEF Frame
  <2>3. /\ r \in PageState /\ r.queue[1] = Append(q, f) /\ r.hold = p.hold /\ r.run = p.run
        /\ r.holds = p.holds /\ r.waiting = p.waiting /\ r.verified = p.verified
        /\ r.preview = p.preview /\ r.going = p.going
    <3>1. PICK t : t = Append(q, f)
      OBVIOUS
    <3>2. t \in Seq(Frame) /\ r = [p EXCEPT !.queue = [@ EXCEPT ![1] = t]]
      BY <1>1, <2>1, <2>2, <3>1 DEF PageState
    <3> HIDE DEF r, f, q
    <3> QED BY <1>1, <3>1, <3>2 DEF PageState
  <2>4. Append(q, f) # <<>> /\ (q # <<>> => Append(q, f)[1] = q[1])
    <3> HIDE DEF f, q
    <3>1. Len(Append(q, f)) = Len(q) + 1 /\ Len(q) \in Nat
      BY <2>2
    <3>2. Append(q, f) # <<>>
      <4>1. PICK t : t = Append(q, f)
        OBVIOUS
      <4>2. Len(t) # 0
        BY <3>1, <4>1
      <4> QED BY <4>1, <4>2
    <3>3. ASSUME q # <<>> PROVE Append(q, f)[1] = q[1]
      BY <2>2, <3>3, TailFacts
    <3> QED BY <3>2, <3>3
  <2>5. OnTheWire(Append(q, f), s, w)
    <3>1. OnTheWire(q, s, w)
      BY DEF Midway, Sound
    <3> HIDE DEF f, q
    <3> QED BY <2>4, <3>1 DEF OnTheWire
  <2>6. Midway(r, s, w) /\ RetryHeld(r) = None /\ Holding(r) = Holding(p)
    BY <2>3, <2>5 DEF Midway, Sound, RetryHeld, Holding
  <2>7. Holding(p) => PageInLine(r, s, w, n + 1)
    <3> SUFFICES ASSUME Holding(p) PROVE PageInLine(r, s, w, n + 1)
      OBVIOUS
    <3>1. InLine(q, p.hold[1].generation, p.preview, s, w, n)
      BY DEF PageInLine
    <3>2. InLine(q, p.hold[1].generation, photo, s, w, n)
      BY <2>2, <3>1, NewPhotoInLine
    <3>3. InLine(Append(q, f), p.hold[1].generation, photo, s, w, n + 1)
      BY <2>2, <3>2, LineGrows
    <3>4. InLine(Append(q, f), p.hold[1].generation, p.preview, s, w, n + 1)
      <4>1. CASE kind = "final"
        BY <3>3, <4>1
      <4>2. CASE kind # "final"
        <5>1. n + 1 \in 0..3
          BY <4>2, KindsAre
        <5>2. Append(q, f) \in Seq(Frame)
          BY <2>2
        <5> HIDE DEF f, q
        <5> QED BY <3>3, <5>1, <5>2, NewPhotoInLine
      <4> QED BY <4>1, <4>2
    <3> QED BY <2>3, <3>4 DEF PageInLine
  <2> QED BY <2>3, <2>6, <2>7
<1> QED BY <1>1, <1>2, <1>3, PageType

LEMMA StepSeenKeeps ==
  ASSUME OneAttempt, CaptureInv, StepSeen(1)
  PROVE  CaptureInv'
<1> DEFINE s == session[1]
           w == wire[1]
           step == page.run[1].step
           photo == PhotoOf(1)
<1>1. page.waiting = 1 /\ page.run[1].at = "step" /\ page \in PageState
  BY InvType DEF StepSeen
<1>2. PICK p : p = [page EXCEPT !.waiting = None]
  OBVIOUS
<1>3. /\ Midway(p, s, w) /\ RetryHeld(p) = None /\ step \in 1..5 /\ Before(step) \in 0..3
      /\ Holding(p) => PageInLine(p, s, w, Before(step)) /\ s.status # "verified"
  BY <1>1, <1>2, StepOver
<1>4. PICK seen : seen = [page EXCEPT !.waiting = None, !.run[1].at = "pausing"]
  OBVIOUS
<1>5. /\ seen \in PageState /\ Keeps(p, seen) /\ seen.holds = p.holds /\ seen.waiting = None
      /\ seen.verified = p.verified /\ seen.preview = p.preview /\ seen.going = p.going
      /\ seen.run[1].at = "pausing" /\ seen.run[1].step = step
  <2>1. PICK u : u = [page.run[1] EXCEPT !.at = "pausing"]
    OBVIOUS
  <2>2. u \in Standing /\ u.at = "pausing" /\ u.step = step
    BY <1>1, <2>1, PageType DEF Standing
  <2>3. seen = [page EXCEPT !.waiting = None, !.run = [@ EXCEPT ![1] = u]]
    BY <1>1, <1>4, <2>1 DEF PageState, Standing
  <2> HIDE DEF step
  <2> QED BY <1>1, <1>2, <2>2, <2>3 DEF PageState, Keeps
<1>6. /\ Midway(seen, s, w) /\ RetryHeld(seen) = None /\ Holding(seen) = Holding(p)
      /\ Holding(seen) => PageInLine(seen, s, w, Before(step))
  BY <1>3, <1>5 DEF Midway, Sound, RetryHeld, Holding, PageInLine, Keeps
<1>7. photo \in Photos
  BY <1>1, OneIsAll, PageType DEF PhotoOf, Photos
<1>8. PICK shown : shown = [seen EXCEPT !.preview = photo]
  OBVIOUS
<1>9. /\ Midway(shown, s, w) /\ RetryHeld(shown) = None /\ Holding(shown) = Holding(p)
      /\ shown.preview = photo /\ shown.run = seen.run
      /\ Holding(shown) => PageInLine(shown, s, w, Before(step))
  <2>1. /\ shown \in PageState /\ Keeps(seen, shown) /\ shown.holds = seen.holds
        /\ shown.waiting = None /\ shown.verified = seen.verified /\ shown.preview = photo
        /\ shown.going = seen.going /\ shown.run = seen.run
    BY <1>5, <1>7, <1>8 DEF PageState, Keeps, Pictures
  <2>2. Holding(seen) => InLine(seen.queue[1], seen.hold[1].generation, photo, s, w, Before(step))
    BY <1>3, <1>5, <1>6, PageType, NewPhotoInLine DEF PageInLine
  <2> QED BY <1>6, <2>1, <2>2 DEF Midway, Sound, RetryHeld, Holding, PageInLine, Keeps
<1>10. PICK sent :
         /\ page' = Unless(sent, 1, sent)
         /\ sent = CASE Steps[step] = "blink" -> Submit(Submit(seen, "closed", photo), "open", photo)
                     [] Steps[step] = "right" -> Submit(seen, "right", photo)
                     [] Steps[step] = "center" -> Submit(shown, "final", photo)
                     [] OTHER -> seen
  BY <1>4, <1>8 DEF StepSeen
<1> HIDE DEF photo
<1>11. /\ Midway(sent, s, w) /\ RetryHeld(sent) = None /\ Holding(sent) = Holding(p)
       /\ Holding(sent) => PageInLine(sent, s, w, Before(step + 1))
       /\ sent.run[1].at = "pausing" /\ sent.run[1].step = step
  <2>1. CASE step = 2
    <3>1. PICK one : one = Submit(seen, "closed", photo)
      OBVIOUS
    <3>2. /\ Midway(one, s, w) /\ RetryHeld(one) = None /\ Holding(one) = Holding(seen)
          /\ Holding(one) => PageInLine(one, s, w, 1)
          /\ one.run = seen.run
      <4>1. Before(step) = 0 /\ Kinds[0 + 1] = "closed" /\ "closed" \in FrameKinds
        BY <2>1, KindsAre DEF Before, FrameKinds
      <4> QED BY <1>6, <1>7, <3>1, <4>1, SubmitIs
    <3>3. sent = Submit(one, "open", photo)
      BY <1>10, <2>1, <3>1, StepsAre
    <3>4. /\ Midway(sent, s, w) /\ RetryHeld(sent) = None /\ Holding(sent) = Holding(one)
          /\ Holding(sent) => PageInLine(sent, s, w, 2)
          /\ sent.run = one.run
      <4>1. Kinds[1 + 1] = "open" /\ "open" \in FrameKinds
        BY KindsAre DEF FrameKinds
      <4> QED BY <1>7, <3>2, <3>3, <4>1, SubmitIs
    <3>5. Before(step + 1) = 2
      BY <2>1 DEF Before
    <3> QED BY <1>5, <1>6, <3>2, <3>4, <3>5
  <2>2. CASE step = 4
    <3>1. Before(step) = 2 /\ Kinds[2 + 1] = "right" /\ "right" \in FrameKinds
          /\ Before(step + 1) = 3
      BY <2>2, KindsAre DEF Before, FrameKinds
    <3>2. sent = Submit(seen, "right", photo)
      BY <1>10, <2>2, StepsAre
    <3>3. /\ Midway(sent, s, w) /\ RetryHeld(sent) = None /\ Holding(sent) = Holding(seen)
          /\ Holding(sent) => PageInLine(sent, s, w, 3)
          /\ sent.run = seen.run
      BY <1>6, <1>7, <3>1, <3>2, SubmitIs
    <3> QED BY <1>5, <1>6, <3>1, <3>3
  <2>3. CASE step = 5
    <3>1. Before(step) = 3 /\ Kinds[3 + 1] = "final" /\ "final" \in FrameKinds
          /\ Before(step + 1) = 4
      BY <2>3, KindsAre DEF Before, FrameKinds
    <3>2. sent = Submit(shown, "final", photo)
      BY <1>10, <2>3, StepsAre
    <3>3. /\ Midway(sent, s, w) /\ RetryHeld(sent) = None /\ Holding(sent) = Holding(shown)
          /\ Holding(sent) => PageInLine(sent, s, w, 4)
          /\ sent.run = shown.run
      BY <1>7, <1>9, <3>1, <3>2, SubmitIs
    <3> QED BY <1>5, <1>9, <3>1, <3>3
  <2>4. CASE step \in {1, 3}
    <3>1. sent = seen
      BY <1>10, <2>4, StepsAre
    <3>2. Before(step + 1) = Before(step)
      BY <2>4 DEF Before
    <3> QED BY <1>5, <1>6, <3>1, <3>2
  <2> QED BY <1>3, <2>1, <2>2, <2>3, <2>4
<1>12. Agreed(sent) = Before(step + 1)
  BY <1>11 DEF Agreed, SentBy
<1>13. Settled(sent, s, w)
  BY <1>3, <1>11, <1>12 DEF Settled, Midway, None
<1>14. Settled(page', s, w)
  BY <1>10, <1>11, <1>13, UnlessSettles
<1> QED BY <1>14, PageStepKeeps DEF StepSeen, Server

LEMMA StepEndsKeeps ==
  ASSUME OneAttempt, CaptureInv, StepMissed(1) \/ NotLive(1) \/ SessionRefused(1)
  PROVE  CaptureInv'
<1> DEFINE p == [page EXCEPT !.waiting = None]
<1>1. CASE StepMissed(1) \/ NotLive(1)
  <2>1. page.waiting = 1
    BY <1>1 DEF StepMissed, NotLive, CaptureInv, Settled
  <2>2. /\ Midway(p, session[1], wire[1]) /\ page.run[1].step \in 1..5
        /\ Holding(p) => PageInLine(p, session[1], wire[1], Before(page.run[1].step))
                          /\ session[1].status # "verified"
    BY <2>1, StepOver
  <2> HIDE DEF p
  <2>3. /\ Settled(Redo(p, 1, page.run[1].step), session[1], wire[1])
        /\ Settled(Thrown(p, 1), session[1], wire[1])
    BY <2>2, RedoSettles, ThrownSettles
  <2> QED BY <1>1, <2>3, PageStepKeeps DEF StepMissed, NotLive, Server, p
<1>2. CASE SessionRefused(1)
  <2>1. Midway(page, session[1], wire[1])
    BY <1>2, RunsOn DEF SessionRefused
  <2>2. Settled(Failed(page, 1), session[1], wire[1])
    BY <2>1, FailedSettles
  <2> QED BY <1>2, <2>2, PageStepKeeps DEF SessionRefused, Server
<1> QED BY <1>1, <1>2

LEMMA PauseEndsKeeps ==
  ASSUME OneAttempt, CaptureInv, PauseEnds(1)
  PROVE  CaptureInv'
<1> DEFINE s == session[1]
           w == wire[1]
           step == page.run[1].step
<1>1. /\ page \in PageState /\ page.run[1].at = "pausing" /\ step \in 1..5
      /\ Midway(page, s, w)
      /\ Holding(page) => PageInLine(page, s, w, Agreed(page))
      /\ Holding(page) /\ Agreed(page) < 4 => s.status # "verified"
      /\ page.verified = None /\ page.waiting = None
  BY InvType, PageType, RunsOn DEF PauseEnds, Midway
<1>2. CASE step < 5
  <2>1. step + 1 \in 1..5 /\ Before(step + 1) < 4
    BY <1>1, <1>2 DEF Before
  <2>2. Agreed(page) = IF RetryHeld(page) = None THEN Before(step + 1)
                       ELSE Before(RetryHeld(page))
    BY <1>1 DEF Agreed, SentBy
  <2>3. Agreed(page) < 4
    BY <1>1, <2>1, <2>2, AgreedType
  <2>4. Settled(LoopTop(page, 1, step + 1), s, w)
    BY <1>1, <2>1, <2>2, <2>3, LoopTopSettles
  <2>5. page' = LoopTop(page, 1, step + 1)
    BY <1>2, StepsAre DEF PauseEnds
  <2> QED BY <2>4, <2>5, PageStepKeeps DEF PauseEnds, Server
<1>3. CASE step = 5 /\ ~page.going
  <2>1. page.holds = None
    BY <1>1, <1>3 DEF Midway, Sound, PageState
  <2>2. Settled(Returned(page, 1), s, w)
    BY <1>1, <2>1, ReturnedSettles
  <2>3. page' = Returned(page, 1)
    BY <1>3, StepsAre DEF PauseEnds
  <2> QED BY <2>2, <2>3, PageStepKeeps DEF PauseEnds, Server
<1>4. CASE step = 5 /\ page.going
  <2>1. page' = [page EXCEPT !.verifying = TRUE, !.run[1].at = "judging",
                             !.run[1].awaits = page.chain]
    BY <1>4, StepsAre DEF PauseEnds
  <2>2. /\ page' \in PageState /\ Keeps(page, page') /\ page'.holds = page.holds
        /\ page'.waiting = None /\ page'.verified = None /\ page'.preview = page.preview
        /\ page'.going = page.going /\ page'.run[1].at = "judging"
    <3>1. PICK u : u = [page.run[1] EXCEPT !.at = "judging", !.awaits = page.chain]
      OBVIOUS
    <3>2. u \in Standing /\ u.at = "judging"
      BY <1>1, <3>1, PageType DEF Standing
    <3>3. page' = [page EXCEPT !.verifying = TRUE, !.run = [@ EXCEPT ![1] = u]]
      BY <1>1, <2>1, <3>1 DEF PageState, Standing
    <3> QED BY <1>1, <3>2, <3>3 DEF PageState, Keeps
  <2>3. RetryHeld(page') = RetryHeld(page) /\ Holding(page') = Holding(page)
    BY <2>2 DEF RetryHeld, Holding, Keeps
  <2>4. SentBy(page.run[1]) = 4 /\ SentBy(page'.run[1]) = 4
    BY <1>1, <1>4, <2>2 DEF SentBy, Before
  <2>5. Agreed(page') = Agreed(page)
    BY <2>3, <2>4 DEF Agreed
  <2>6. Settled(page, s, w)
    BY DEF CaptureInv
  <2>7. Settled(page', s, w)
    BY <1>1, <2>2, <2>3, <2>5, <2>6 DEF Settled, Sound, PageInLine, Keeps, None
  <2> QED BY <2>7, PageStepKeeps DEF PauseEnds, Server
<1> QED BY <1>1, <1>2, <1>3, <1>4

\* A verdict is taken only of a session still held, and then the photo in the
\* review is the one that was verified.
LEMMA VerdictSettles ==
  ASSUME CaptureInv, page.run[1].at = "judging"
  PROVE  Settled(Verdict(1), session[1], wire[1])
<1> DEFINE s == session[1]
           w == wire[1]
<1>1. /\ page \in PageState /\ Midway(page, s, w) /\ Settled(page, s, w)
      /\ Holding(page) => PageInLine(page, s, w, Agreed(page))
      /\ Holding(page) /\ Agreed(page) < 4 => s.status # "verified"
  BY InvType, RunsOn DEF CaptureInv
<1>2. PICK quiet : quiet = [page EXCEPT !.verifying = FALSE]
  OBVIOUS
<1>3. /\ quiet \in PageState /\ Keeps(page, quiet) /\ quiet.holds = page.holds
      /\ quiet.waiting = page.waiting /\ quiet.verified = page.verified
      /\ quiet.preview = page.preview /\ quiet.going = page.going /\ quiet.run = page.run
  BY <1>1, <1>2 DEF PageState, Keeps
<1>4. /\ Midway(quiet, s, w) /\ RetryHeld(quiet) = RetryHeld(page)
      /\ Holding(quiet) = Holding(page) /\ FailureHeld(quiet) = FailureHeld(page)
      /\ \A n : PageInLine(quiet, s, w, n) <=> PageInLine(page, s, w, n)
  BY <1>1, <1>3 DEF Midway, Sound, RetryHeld, Holding, FailureHeld, PageInLine, Keeps
<1>5. Holding(quiet) /\ RetryHeld(quiet) # None =>
        PageInLine(quiet, s, w, Before(RetryHeld(quiet))) /\ s.status # "verified"
  BY <1>1, <1>4, AgreedType DEF Agreed
<1>6. CASE page.holds = None \/ ~page.hold[page.holds].verified
  <2>1. Settled(Thrown(quiet, 1), s, w)
    BY <1>4, ThrownSettles
  <2>2. Settled(Unless(quiet, 1, Thrown(quiet, 1)), s, w)
    BY <1>4, <1>5, <2>1, UnlessSettles
  <2> QED BY <1>2, <1>6, <2>2 DEF Verdict
<1>7. CASE ~(page.holds = None \/ ~page.hold[page.holds].verified)
  <2>1. page.holds = 1 /\ page.hold[1].verified /\ s.status = "verified"
    BY <1>1, <1>7, PageType DEF Settled, Sound
  <2>2. PICK done : done = [Returned(quiet, 1) EXCEPT !.verified = 1]
    OBVIOUS
  <2>3. PICK t : t = Returned(quiet, 1)
    OBVIOUS
  <2>4. /\ done \in PageState /\ Keeps(page, done) /\ done.run[1].at = "ended"
        /\ done.waiting = None /\ done.verified = 1 /\ done.preview = page.preview
    <3>1. /\ t \in PageState /\ Keeps(quiet, t) /\ t.run[1].at = "ended"
          /\ t.waiting = None /\ t.preview = page.preview
      BY <1>3, <1>4, <2>3, ReturnedIs DEF Midway
    <3>2. done = [t EXCEPT !.verified = 1]
      BY <2>2, <2>3
    <3> QED BY <1>3, <3>1, <3>2 DEF PageState, Keeps
  <2>5. PICK r : r = StopCamera(done)
    OBVIOUS
  <2>6. Closed(done, r) /\ r.verified = 1 /\ r.preview = page.preview
    BY <2>4, <2>5, StopCameraIs
  <2>7. ~FailureHeld(quiet) => s.final = page.preview
    BY <1>1, <1>4, <2>1 DEF Settled, Holding, FailureHeld, None
  <2>8. ~FailureHeld(quiet) => Settled(r, s, w)
    BY <1>1, <2>1, <2>4, <2>6, <2>7 DEF Settled, Sound, Closed, Keeps, Holding, Midway, None
  <2>9. Settled(Unless(quiet, 1, r), s, w)
    BY <1>4, <1>5, <2>8, UnlessSettles
  <2> QED BY <1>2, <1>7, <2>2, <2>5, <2>9 DEF Verdict
<1> QED BY <1>6, <1>7

LEMMA VerdictKeeps ==
  ASSUME OneAttempt, CaptureInv, VerdictIsIn(1) \/ VerdictTimesOut(1)
  PROVE  CaptureInv'
<1> DEFINE s == session[1]
           w == wire[1]
<1>1. /\ page \in PageState /\ page.run[1].at = "judging" /\ Midway(page, s, w)
  BY InvType, RunsOn DEF VerdictIsIn, VerdictTimesOut
<1>2. CASE VerdictIsIn(1) /\ page.going
  BY <1>1, <1>2, VerdictSettles, PageStepKeeps DEF VerdictIsIn, Server
<1>3. CASE VerdictIsIn(1) /\ ~page.going
  <2>1. page.holds = None
    BY <1>1, <1>3 DEF Midway, Sound, PageState
  <2> QED BY <1>1, <1>3, <2>1, ReturnedSettles, PageStepKeeps DEF VerdictIsIn, Server
<1>4. CASE VerdictTimesOut(1)
  <2>1. PICK p : p = [page EXCEPT !.verifying = ~page.going /\ @]
    OBVIOUS
  <2>2. Midway(p, s, w)
    <3>1. /\ p \in PageState /\ Keeps(page, p) /\ p.holds = page.holds
          /\ p.waiting = page.waiting /\ p.verified = page.verified /\ p.going = page.going
      BY <1>1, <2>1 DEF PageState, Keeps
    <3> QED BY <1>1, <3>1 DEF Midway, Sound, Keeps
  <2>3. Settled(Thrown(p, 1), s, w)
    BY <2>2, ThrownSettles
  <2> QED BY <1>4, <2>1, <2>3, PageStepKeeps DEF VerdictTimesOut, Server
<1> QED BY <1>2, <1>3, <1>4

-----------------------------------------------------------------------------
\* What page, server and wire must still fulfil when only the latter change.
LEMMA ServerStepKeeps ==
  ASSUME CaptureInv, page' = page, NEW s \in SessionState, NEW w \in WireState,
         session' = [session EXCEPT ![1] = s], wire' = [wire EXCEPT ![1] = w],
         page.queue[1] # <<>> \/ w = wire[1],
         OnTheWire(page.queue[1], s, w),
         session[1].status = "verified" => s.status = "verified" /\ s.final = session[1].final,
         Holding(page) => PageInLine(page, s, w, Agreed(page)),
         Holding(page) /\ s.status = "verified" => s.final = page.preview /\ Agreed(page) = 4
  PROVE  CaptureInv'
<1>1. /\ session' \in [{1} -> SessionState] /\ session'[1] = s
      /\ wire' \in [{1} -> WireState] /\ wire'[1] = w
  BY DEF CaptureInv
<1>2. Settled(page, s, w)
  BY DEF CaptureInv, Settled, Sound
<1> QED BY <1>1, <1>2 DEF CaptureInv

LEMMA FrameLeavesKeeps ==
  ASSUME OneAttempt, CaptureInv, FrameLeaves(1)
  PROVE  CaptureInv'
<1> DEFINE s == session[1]
           w == wire[1]
           q == page.queue[1]
           g == page.hold[1].generation
<1>1. /\ page \in PageState /\ q \in Seq(Frame) /\ q # <<>> /\ w.at = "idle" /\ w \in WireState
      /\ s \in SessionState /\ Settled(page, s, w) /\ OnTheWire(q, s, w) /\ g \in Nat
      /\ Agreed(page) \in 0..4
  BY InvType, PageType, AgreedType DEF FrameLeaves, CaptureInv
<1>2. Head(q) = q[1]
  BY <1>1, TailFacts
<1>3. CASE Stale(1, Head(q))
  <2>1. page' = [page EXCEPT !.queue[1] = Tail(@)] /\ wire' = wire /\ session' = session
    BY <1>3 DEF FrameLeaves
  <2>2. /\ page' \in PageState /\ page'.queue[1] = Tail(q) /\ page'.hold = page.hold
        /\ page'.holds = page.holds /\ page'.waiting = page.waiting
        /\ page'.verified = page.verified /\ page'.preview = page.preview
        /\ page'.going = page.going /\ page'.run = page.run
    BY <1>1, <2>1, TailFacts DEF PageState
  <2>3. /\ RetryHeld(page') = RetryHeld(page) /\ Holding(page') = Holding(page)
        /\ Agreed(page') = Agreed(page)
    BY <2>2 DEF RetryHeld, Holding, Agreed
  <2>4. OnTheWire(Tail(q), s, w)
    BY <1>1 DEF OnTheWire
  <2>5. Holding(page) => PageInLine(page', s, w, Agreed(page))
    <3> SUFFICES ASSUME Holding(page) PROVE PageInLine(page', s, w, Agreed(page))
      OBVIOUS
    <3>1. q[1].generation # g
      BY <1>2, <1>3 DEF Stale, Holding
    <3>2. InLine(q, g, page.preview, s, w, Agreed(page))
      BY <1>1 DEF Settled, PageInLine
    <3>3. InLine(Tail(q), g, page.preview, s, w, Agreed(page))
      BY <1>1, <3>1, <3>2, StaleDropped
    <3> QED BY <2>2, <3>3 DEF PageInLine
  <2>6. Settled(page', s, w)
    BY <1>1, <2>2, <2>3, <2>4, <2>5 DEF Settled, Sound
  <2> QED BY <2>1, <2>6, PageStepKeeps
<1>4. CASE ~Stale(1, Head(q))
  <2>1. PICK v : v = [w EXCEPT !.at = "sent"]
    OBVIOUS
  <2>2. /\ wire' = [wire EXCEPT ![1] = v] /\ page' = page /\ session' = [session EXCEPT ![1] = s]
        /\ v \in WireState /\ v.at = "sent"
    BY <1>1, <1>4, <2>1 DEF FrameLeaves, WireState, CaptureInv
  <2>3. Holding(page) /\ q[1].generation = g
    BY <1>1, <1>2, <1>4, PageType DEF Stale, Holding
  <2>4. InLine(q, g, page.preview, s, w, Agreed(page))
    BY <1>1, <2>3 DEF Settled, PageInLine
  <2>5. PICK b \in 0..3 :
          /\ Continues(q, g, page.preview, b, 0, Agreed(page)) /\ ServerAt(s, w, b)
          /\ q[1].kind = Kinds[b + 1]
    <3>1. q \in Seq(Frame) /\ q # <<>> /\ g \in Nat /\ Agreed(page) \in 0..4
      BY <1>1
    <3>2. q[1].generation = g /\ InLine(q, g, page.preview, s, w, Agreed(page))
      BY <2>3, <2>4
    <3> HIDE DEF q, g, s, w
    <3>3. \E b \in 0..3 :
            /\ Continues(q, g, page.preview, b, 0, Agreed(page)) /\ ServerAt(s, w, b)
            /\ q[1].kind = Kinds[b + 1] /\ (q[1].kind = "final" => q[1].photo = page.preview)
            /\ (q[1].kind = "final" => Agreed(page) = 4)
      BY <3>1, <3>2, HeadContinues
    <3> QED BY <3>3
  <2>6. s.received = b /\ ServerAt(s, v, b)
    BY <1>1, <2>2, <2>5 DEF ServerAt
  <2>7. OnTheWire(q, s, v)
    BY <1>1, <2>2, <2>5, <2>6 DEF OnTheWire
  <2>8. PageInLine(page, s, v, Agreed(page))
    BY <1>1, <2>5, <2>6 DEF PageInLine, InLine
  <2>9. s.status = "verified" /\ Holding(page) => s.final = page.preview /\ Agreed(page) = 4
    BY <1>1 DEF Settled
  <2> QED BY <1>1, <2>2, <2>7, <2>8, <2>9, ServerStepKeeps
<1> QED BY <1>3, <1>4

\* A frame on its way is not answered "retry" or "verified" out of turn.
LEMMA FrameArrivesKeeps ==
  ASSUME OneAttempt, CaptureInv, FrameArrives(1)
  PROVE  CaptureInv'
<1> DEFINE s == session[1]
           w == wire[1]
           q == page.queue[1]
           Told(answer) == [at |-> "answered", answer |-> answer]
<1>1. /\ page \in PageState /\ q \in Seq(Frame) /\ w.at = "sent" /\ w \in WireState
      /\ s \in SessionState /\ Settled(page, s, w) /\ OnTheWire(q, s, w) /\ page' = page
  BY InvType, PageType DEF FrameArrives, CaptureInv
<1>2. q # <<>> /\ s.received < 4 /\ q[1].kind = Kinds[s.received + 1] /\ s.status # "verified"
  BY <1>1 DEF OnTheWire
<1>3. q[1] = Head(q)
  BY <1>1, <1>2, TailFacts
\* Answered without being taken.
<1>4. ASSUME NEW t \in SessionState, NEW answer \in {"error", "failed"},
             session' = [session EXCEPT ![1] = t], wire' = [wire EXCEPT ![1] = Told(answer)],
             t.received = s.received, t.status # "verified", t.kept = s.kept, t.busy = s.busy,
             ~t.disorder
      PROVE  CaptureInv'
  <2>1. PICK v : v = Told(answer)
    OBVIOUS
  <2>2. v \in WireState /\ v.at = "answered" /\ v.answer \in {"error", "failed"}
    BY <2>1 DEF WireState
  <2>3. OnTheWire(q, t, v)
    BY <1>1, <1>2, <1>4, <2>2 DEF OnTheWire
  <2>4. Holding(page) => PageInLine(page, t, v, Agreed(page))
    BY <1>1, <2>2 DEF Settled, PageInLine, InLine, ServerAt
  <2> QED BY <1>1, <1>2, <1>4, <2>1, <2>2, <2>3, <2>4, ServerStepKeeps
<1>5. session = [session EXCEPT ![1] = s] /\ ~s.disorder
  BY <1>1 DEF CaptureInv, OnTheWire
<1>6. CASE ~s.kept
  BY <1>1, <1>2, <1>4, <1>5, <1>6 DEF FrameArrives, Answer
<1>7. CASE s.kept /\ s.status # "pending"
  <2>1. s.status = "failed"
    BY <1>1, <1>2, <1>7 DEF SessionState
  <2> QED BY <1>1, <1>2, <1>4, <1>5, <1>7, <2>1 DEF FrameArrives, Answer
<1>8. CASE s.kept /\ s.status = "pending"
  <2>1. ~OutOfOrder(1, Head(q).kind)
    BY <1>1, <1>2, <1>3, <1>8, KindsAre DEF OutOfOrder, OnTheWire, SessionState
  <2>2. CASE s.late
    <3>1. PICK t : t = [s EXCEPT !.status = "failed", !.disorder = FALSE]
      OBVIOUS
    <3>2. session' = [session EXCEPT ![1] = t] /\ wire' = [wire EXCEPT ![1] = Told("failed")]
      BY <1>1, <1>8, <2>2, <3>1 DEF FrameArrives, Answer, CaptureInv
    <3>3. /\ t \in SessionState /\ t.received = s.received /\ t.status = "failed"
          /\ t.kept = s.kept /\ t.busy = s.busy /\ ~t.disorder
      BY <1>1, <3>1 DEF SessionState
    <3> QED BY <1>4, <3>2, <3>3
  <2>3. CASE ~s.late
    <3>1. PICK t : t = [s EXCEPT !.busy = TRUE]
      OBVIOUS
    <3>2. PICK v : v = [w EXCEPT !.at = "judging"]
      OBVIOUS
    <3>3. session' = [session EXCEPT ![1] = t] /\ wire' = [wire EXCEPT ![1] = v]
      BY <1>1, <1>8, <2>1, <2>3, <3>1, <3>2 DEF FrameArrives, CaptureInv
    <3>4. /\ t \in SessionState /\ t.received = s.received /\ t.status = "pending"
          /\ t.kept = s.kept /\ ~t.disorder
          /\ v \in WireState /\ v.at = "judging"
      BY <1>1, <1>5, <1>8, <3>1, <3>2 DEF SessionState, WireState
    <3>5. OnTheWire(q, t, v)
      BY <1>2, <3>4 DEF OnTheWire
    <3>6. Holding(page) => PageInLine(page, t, v, Agreed(page))
      BY <1>1, <3>4 DEF Settled, PageInLine, InLine, ServerAt
    <3> QED BY <1>1, <1>2, <1>8, <3>3, <3>4, <3>5, <3>6, ServerStepKeeps
  <2> QED BY <2>2, <2>3
<1> QED BY <1>6, <1>7, <1>8

\* A frame that is judged: the server's session and its answer.
LEMMA JudgedKeeps ==
  ASSUME OneAttempt, CaptureInv, wire[1].at = "judging", page' = page,
         NEW t \in SessionState, NEW answer \in {"failed", "retry", "pending", "verified"},
         session' = [session EXCEPT ![1] = t],
         wire' = [wire EXCEPT ![1] = [at |-> "answered", answer |-> answer]],
         ~t.busy, ~t.disorder,
         answer = "failed" => t.status = "failed",
         answer = "retry" =>
           t.status = "pending" /\ t.received = Before(StepOf(page.queue[1][1].kind)),
         answer \in {"pending", "verified"} =>
           /\ t.status = answer /\ t.received = session[1].received + 1
           /\ answer = "verified" => page.queue[1][1].kind = "final"
                                      /\ t.final = page.queue[1][1].photo
  PROVE  CaptureInv'
<1> DEFINE s == session[1]
           w == wire[1]
           q == page.queue[1]
<1>1. /\ page \in PageState /\ q \in Seq(Frame) /\ w \in WireState
      /\ s \in SessionState /\ Settled(page, s, w) /\ OnTheWire(q, s, w)
      /\ page.hold[1].generation \in Nat /\ Agreed(page) \in 0..4
  BY InvType, PageType, AgreedType DEF CaptureInv
<1>2. /\ q # <<>> /\ s.received \in 0..3 /\ q[1].kind = Kinds[s.received + 1]
      /\ s.status = "pending"
  BY <1>1 DEF OnTheWire, SessionState
<1>3. PICK v : v = [at |-> "answered", answer |-> answer]
  OBVIOUS
<1>4. v \in WireState /\ v.at = "answered" /\ v.answer = answer
  BY <1>3 DEF WireState
<1>5. answer = "verified" => t.received = 4
  BY <1>2, KindsAre
<1>6. OnTheWire(q, t, v)
  BY <1>2, <1>4, <1>5 DEF OnTheWire
<1>7. ASSUME Holding(page)
      PROVE  /\ PageInLine(page, t, v, Agreed(page))
             /\ t.status = "verified" => t.final = page.preview /\ Agreed(page) = 4
  <2>1. PageInLine(page, s, w, Agreed(page))
    BY <1>1, <1>7 DEF Settled
  <2>2. PICK b \in 0..4, k \in 0..Len(q) :
          /\ Continues(q, page.hold[1].generation, page.preview, b, k, Agreed(page))
          /\ ServerAt(s, w, b) /\ k = 0
    BY <2>1 DEF PageInLine, InLine
  <2>3. ServerAt(t, v, b)
    BY <1>4, <2>2 DEF ServerAt
  <2>4. q[1].generation = page.hold[1].generation
    <3>1. 1 \in 1..Len(q) /\ ~(1 <= k)
      BY <1>1, <1>2, <2>2, TailFacts
    <3> QED BY <2>2, <3>1 DEF Continues
  <2>5. q[1].kind = "final" => q[1].photo = page.preview /\ Agreed(page) = 4
    <3>1. PICK g, photo, n : g = page.hold[1].generation /\ photo = page.preview
                             /\ n = Agreed(page)
      OBVIOUS
    <3>2. /\ q \in Seq(Frame) /\ q # <<>> /\ g \in Nat /\ n \in 0..4
          /\ q[1].generation = g /\ InLine(q, g, photo, s, w, n)
      BY <1>1, <1>2, <2>1, <2>4, <3>1 DEF PageInLine
    <3> HIDE DEF q, s, w
    <3>3. \E c \in 0..3 :
            /\ Continues(q, g, photo, c, 0, n) /\ ServerAt(s, w, c)
            /\ q[1].kind = Kinds[c + 1] /\ (q[1].kind = "final" => q[1].photo = photo)
            /\ (q[1].kind = "final" => n = 4)
      BY <3>2, HeadContinues
    <3> QED BY <3>1, <3>3
  <2> QED BY <1>4, <2>2, <2>3, <2>5 DEF PageInLine, InLine
<1> QED BY <1>1, <1>2, <1>3, <1>4, <1>6, <1>7, ServerStepKeeps

LEMMA FrameIsJudgedKeeps ==
  ASSUME OneAttempt, CaptureInv, FrameIsBad(1) \/ FrameIsWeak(1) \/ FrameIsGood(1)
  PROVE  CaptureInv'
<1> DEFINE s == session[1]
           w == wire[1]
           q == page.queue[1]
           frame == Head(q)
<1>1. /\ page \in PageState /\ q \in Seq(Frame) /\ s \in SessionState /\ OnTheWire(q, s, w)
      /\ w.at = "judging" /\ page' = page
  BY InvType, PageType DEF FrameIsBad, FrameIsWeak, FrameIsGood
<1>2. /\ q # <<>> /\ s.received \in 0..3 /\ s.status = "pending" /\ ~s.disorder
      /\ session \in [{1} -> SessionState]
  BY <1>1 DEF OnTheWire, SessionState, CaptureInv
<1>3. frame = q[1] /\ frame \in Frame /\ frame.kind \in FrameKinds /\ frame.photo \in Photos
  BY <1>1, <1>2, TailFacts DEF Frame
<1>4. CASE FrameIsBad(1) \/ (FrameIsWeak(1) /\ s.retries >= ServerRetries)
  <2>1. PICK t : t = [s EXCEPT !.status = "failed", !.busy = FALSE]
    OBVIOUS
  <2>2. /\ session' = [session EXCEPT ![1] = t]
        /\ wire' = [wire EXCEPT ![1] = [at |-> "answered", answer |-> "failed"]]
    BY <1>2, <1>4, <2>1 DEF FrameIsBad, FrameIsWeak, JudgedBad, Answer
  <2>3. t \in SessionState /\ ~t.busy /\ ~t.disorder /\ t.status = "failed"
    BY <1>1, <1>2, <2>1 DEF SessionState
  <2> QED BY <1>1, <2>2, <2>3, JudgedKeeps
<1>5. CASE FrameIsWeak(1) /\ ~(s.retries >= ServerRetries)
  <2>1. PICK t : t = [s EXCEPT !.retries = @ + 1, !.received = Rewound(frame.kind),
                               !.closed = FALSE, !.busy = FALSE]
    OBVIOUS
  <2>2. /\ session' = [session EXCEPT ![1] = t]
        /\ wire' = [wire EXCEPT ![1] = [at |-> "answered", answer |-> "retry"]]
    BY <1>2, <1>5, <2>1 DEF FrameIsWeak, JudgedAgain, Answer
  <2>3. Rewound(frame.kind) \in 0..4 /\ Rewound(frame.kind) = Before(StepOf(frame.kind))
    BY <1>3, StepOfKind DEF Rewound, FirstOf, FrameKinds
  <2>4. /\ t \in SessionState /\ ~t.busy /\ ~t.disorder /\ t.status = "pending"
        /\ t.received = Before(StepOf(frame.kind))
    <3>1. PICK m, c : m = s.retries + 1 /\ c = Rewound(frame.kind)
      OBVIOUS
    <3>2. m \in Nat /\ c \in 0..4 /\ c = Before(StepOf(frame.kind))
      BY <1>1, <2>3, <3>1 DEF SessionState
    <3>3. t = [s EXCEPT !.retries = m, !.received = c, !.closed = FALSE, !.busy = FALSE]
      BY <2>1, <3>1
    <3> QED BY <1>1, <1>2, <3>2, <3>3 DEF SessionState
  <2> QED BY <1>1, <1>3, <2>2, <2>4, JudgedKeeps
<1>6. CASE FrameIsGood(1)
  <2>1. PICK taken : taken = [s EXCEPT !.received = @ + 1, !.busy = FALSE,
                                       !.closed = @ \/ frame.kind = "closed"]
    OBVIOUS
  <2>2. /\ taken \in SessionState /\ ~taken.busy /\ ~taken.disorder
        /\ taken.received = s.received + 1 /\ taken.status = "pending"
    <3>1. PICK m, c : m = s.received + 1 /\ c = (s.closed \/ frame.kind = "closed")
      OBVIOUS
    <3>2. m \in 0..4 /\ m = s.received + 1
      BY <1>2, <3>1
    <3>3. c \in BOOLEAN
      BY <3>1
    <3>4. taken = [s EXCEPT !.received = m, !.busy = FALSE, !.closed = c]
      BY <2>1, <3>1
    <3> HIDE DEF s
    <3> QED BY <1>1, <1>2, <3>2, <3>3, <3>4 DEF SessionState
  <2>3. PICK t : t = IF frame.kind # "final" THEN taken
                     ELSE [taken EXCEPT !.status = "verified", !.final = frame.photo,
                                        !.late = FALSE]
    OBVIOUS
  <2>4. /\ t \in SessionState /\ ~t.busy /\ ~t.disorder /\ t.received = s.received + 1
        /\ t.status = (IF frame.kind = "final" THEN "verified" ELSE "pending")
        /\ frame.kind = "final" => t.final = frame.photo
    BY <1>3, <2>2, <2>3 DEF SessionState, Pictures
  <2>5. session' = [session EXCEPT ![1] = t]
    BY <1>2, <1>6, <2>1, <2>3 DEF FrameIsGood, JudgedGood
  <2>6. wire' = [wire EXCEPT ![1] = [at |-> "answered", answer |-> t.status]]
    BY <1>2, <1>6, <2>5 DEF FrameIsGood, Answer
  <2> QED BY <1>1, <1>3, <2>4, <2>5, <2>6, JudgedKeeps
<1> QED BY <1>4, <1>5, <1>6

\* The answer wakes the page: it gives up, goes back, or goes on.
LEMMA FrameAnsweredKeeps ==
  ASSUME OneAttempt, CaptureInv, FrameAnswered(1)
  PROVE  CaptureInv'
<1> DEFINE s == session[1]
           w == wire[1]
           q == page.queue[1]
           g == page.hold[1].generation
           step == StepOf(Head(q).kind)
           n == Agreed(page)
<1>1. /\ page \in PageState /\ q \in Seq(Frame) /\ s \in SessionState /\ OnTheWire(q, s, w)
      /\ w.at = "answered" /\ session' = session /\ wire' = [wire EXCEPT ![1] = Quiet]
      /\ w \in WireState /\ Settled(page, s, w) /\ g \in Nat /\ n \in 0..4
  BY InvType, PageType, AgreedType DEF FrameAnswered, CaptureInv
<1>2. q # <<>> /\ w.answer # "none" /\ ~(s.busy /\ s.kept)
      /\ page.run[1].at \notin {"unused", "asking"}
  BY <1>1 DEF OnTheWire, Settled
<1>3. Head(q) = q[1] /\ Tail(q) \in Seq(Frame) /\ q[1].kind \in FrameKinds /\ step \in {2, 4, 5}
  BY <1>1, <1>2, TailFacts, StepOfKind DEF Frame
<1>4. PICK v : v = Quiet
  OBVIOUS
<1>5. /\ v.at = "idle" /\ wire' \in [{1} -> WireState] /\ wire'[1] = v
  BY <1>1, <1>4 DEF Quiet, WireState, CaptureInv
<1>6. SUFFICES Settled(page', s, v)
  BY <1>1, <1>5 DEF CaptureInv
<1>7. OnTheWire(Tail(q), s, v)
  BY <1>1, <1>2, <1>5 DEF OnTheWire
<1>8. PICK taken : taken = [page EXCEPT !.queue[1] = Tail(@)]
  OBVIOUS
<1>9. /\ taken \in PageState /\ taken.queue[1] = Tail(q) /\ taken.hold = page.hold
      /\ taken.holds = page.holds /\ taken.waiting = page.waiting
      /\ taken.verified = page.verified /\ taken.preview = page.preview
      /\ taken.going = page.going /\ taken.run = page.run
  BY <1>1, <1>3, <1>8 DEF PageState
\* p keeps the attempt as it is, but what it holds of the session may change.
<1> DEFINE Like(p) ==
      /\ p \in PageState /\ p.queue = taken.queue /\ p.holds = page.holds
      /\ p.waiting = page.waiting /\ p.verified = page.verified /\ p.preview = page.preview
      /\ p.going = page.going /\ p.run = page.run
      /\ p.hold[1].verified => s.status = "verified"
<1>10. ASSUME NEW p, Like(p) PROVE Sound(p, s, v)
  BY <1>1, <1>7, <1>9, <1>10 DEF Settled, Sound
<1>11. CASE w.answer \in {"failed", "error"}
  <2>1. PICK failed : failed = [taken EXCEPT !.hold[1].failure = TRUE]
    OBVIOUS
  <2>2. Like(failed) /\ ~Holding(failed)
    <3>1. PICK h : h = [page.hold[1] EXCEPT !.failure = TRUE]
      OBVIOUS
    <3>2. h \in Held /\ h.failure /\ h.verified = page.hold[1].verified
      BY <1>1, <3>1, PageType DEF Held
    <3>3. failed = [taken EXCEPT !.hold = [@ EXCEPT ![1] = h]]
      BY <1>9, <2>1, <3>1 DEF PageState, Held
    <3> QED BY <1>1, <1>9, <3>2, <3>3, HoldReplaced DEF Holding, Settled, Sound
  <2>3. RetryHeld(failed) = RetryHeld(page)
    BY <1>9, <2>1, <2>2 DEF PageState, RetryHeld, Held, None
  <2>4. Settled(failed, s, v)
    BY <1>1, <1>2, <1>10, <2>2, <2>3 DEF Settled
  <2>5. CASE page' = failed
    BY <2>4, <2>5
  <2>6. CASE page' = AbortFailed(failed) /\ failed.waiting # None
    <3>1. PICK p : p = [failed EXCEPT !.waiting = None]
      OBVIOUS
    <3>2. /\ p \in PageState /\ Keeps(failed, p) /\ p.waiting = None /\ p.holds = failed.holds
          /\ p.going = failed.going /\ p.verified = failed.verified
      BY <2>2, <3>1 DEF PageState, Keeps
    <3>3. failed.waiting = 1 /\ failed.verified = None
      BY <2>2, <2>4, <2>6, PageType DEF Settled
    <3>4. Midway(p, s, v)
      BY <2>4, <3>2, <3>3 DEF Settled, Midway, Sound, Keeps
    <3>5. page' = Thrown(p, 1)
      BY <2>6, <3>1, <3>3 DEF AbortFailed
    <3> QED BY <3>4, <3>5, ThrownSettles
  <2>7. page' = failed \/ page' = AbortFailed(failed)
    BY <1>8, <1>11, <2>1 DEF FrameAnswered
  <2> QED BY <2>5, <2>6, <2>7 DEF AbortFailed
<1>12. CASE w.answer = "retry"
  <2>1. PICK again : again = [taken EXCEPT !.hold[1].retry = step, !.hold[1].generation = @ + 1]
    OBVIOUS
  <2>2. /\ Like(again) /\ again.hold[1].failure = page.hold[1].failure
        /\ again.hold[1].retry = step /\ again.hold[1].generation = g + 1
    <3>1. PICK h : h = [taken.hold[1] EXCEPT !.retry = step, !.generation = @ + 1]
      OBVIOUS
    <3>2. /\ h \in Held /\ h.failure = page.hold[1].failure /\ h.retry = step
          /\ h.generation = g + 1 /\ h.verified = page.hold[1].verified
      <4>1. page.hold[1] \in Held
        BY <1>1, PageType
      <4>2. PICK o, m, k : o = page.hold[1] /\ m = g + 1 /\ k = step
        OBVIOUS
      <4>3. h = [o EXCEPT !.retry = k, !.generation = m]
        BY <1>9, <3>1, <4>2
      <4>4. k \in {None, 2, 4, 5} /\ o \in Held /\ m \in Nat
        BY <1>1, <1>3, <4>1, <4>2
      <4>5. /\ h \in Held /\ h.failure = o.failure /\ h.retry = k
            /\ h.generation = m /\ h.verified = o.verified
        BY <4>3, <4>4 DEF Held
      <4> QED BY <4>2, <4>5
    <3>3. again = [taken EXCEPT !.hold = [@ EXCEPT ![1] = h]]
      BY <1>9, <2>1, <3>1 DEF PageState, Held
    <3>4. /\ again \in PageState /\ again.hold[1] = h /\ again.queue = taken.queue
          /\ again.holds = page.holds
          /\ again.waiting = page.waiting /\ again.verified = page.verified
          /\ again.preview = page.preview /\ again.going = page.going /\ again.run = page.run
      BY <1>9, <3>2, <3>3 DEF PageState
    <3> QED BY <1>1, <3>2, <3>4 DEF Settled, Sound
  <2>3. Holding(again) = Holding(page)
    BY <2>2 DEF Holding
  <2>4. s.status = "pending" /\ s.received = Before(step) /\ s.received \in 0..4
    BY <1>1, <1>3, <1>12 DEF OnTheWire, SessionState
  <2>5. Holding(again) => PageInLine(again, s, v, Before(step))
    <3> SUFFICES ASSUME Holding(page) PROVE PageInLine(again, s, v, s.received)
      BY <2>3, <2>4
    <3>1. InLine(q, g, page.preview, s, w, n)
      BY <1>1 DEF Settled, PageInLine
    <3>2. InLine(Tail(q), g + 1, page.preview, s, v, s.received)
      BY <1>1, <1>2, <1>5, <2>4, <3>1, LineRestarts
    <3> QED BY <1>9, <2>2, <3>2 DEF PageInLine
  <2>6. page' = IF page.holds = 1 THEN AbortRedo(again, step) ELSE again
    BY <1>8, <1>12, <2>1 DEF FrameAnswered
  <2>7. CASE again.waiting = None
    <3>1. page' = again
      BY <2>6, <2>7 DEF AbortRedo
    <3>2. Holding(again) => Agreed(again) = Before(step)
      BY <1>3, <2>2 DEF Agreed, RetryHeld, Holding, None
    <3> QED BY <1>1, <1>2, <1>10, <2>2, <2>3, <2>4, <2>5, <2>7, <3>1, <3>2 DEF Settled, None
  <2>8. CASE again.waiting # None /\ page' = AbortRedo(again, step)
    <3>1. PICK p : p = [again EXCEPT !.waiting = None]
      OBVIOUS
    <3>2. /\ p \in PageState /\ Keeps(again, p) /\ p.waiting = None /\ p.holds = again.holds
          /\ p.going = again.going /\ p.verified = again.verified /\ p.preview = again.preview
      BY <2>2, <3>1 DEF PageState, Keeps
    <3>3. again.waiting = 1 /\ again.verified = None
      BY <1>1, <2>2, <2>8, PageType DEF Settled
    <3>4. Midway(p, s, v)
      BY <1>10, <2>2, <3>2, <3>3 DEF Midway, Sound, Keeps
    <3>5. Holding(p) => PageInLine(p, s, v, Before(step)) /\ s.status # "verified"
      BY <2>4, <2>5, <3>2 DEF Holding, PageInLine, Keeps
    <3>6. page' = Redo(p, 1, step)
      BY <2>8, <3>1, <3>3 DEF AbortRedo
    <3> QED BY <1>3, <3>4, <3>5, <3>6, RedoSettles
  <2>9. CASE again.waiting # None /\ page.holds # 1
    <3>1. page' = again
      BY <1>8, <1>12, <2>1, <2>9 DEF FrameAnswered
    <3>2. page.run[1].at = "step" /\ page.waiting = 1 /\ page.holds = None
      BY <1>1, <2>2, <2>9, PageType DEF Settled
    <3>3. ~Holding(again) /\ RetryHeld(again) = None
      BY <2>2, <3>2 DEF Holding, RetryHeld, None
    <3>4. Sound(again, s, v) /\ again.run = page.run /\ again.holds = page.holds
          /\ again.verified = page.verified /\ again.waiting = 1
      BY <1>10, <2>2, <3>2
    <3> QED BY <1>1, <3>1, <3>2, <3>3, <3>4 DEF Settled, None
  <2> QED BY <2>6, <2>7, <2>8, <2>9
<1>13. CASE w.answer \in {"verified", "pending"}
  <2>1. Holding(page) => PageInLine(taken, s, v, n)
    <3> SUFFICES ASSUME Holding(page) PROVE PageInLine(taken, s, v, n)
      OBVIOUS
    <3>1. InLine(q, g, page.preview, s, w, n)
      BY <1>1 DEF Settled, PageInLine
    <3>2. InLine(Tail(q), g, page.preview, s, v, n)
      BY <1>1, <1>2, <1>5, <1>13, <3>1, HeadTaken
    <3> QED BY <1>9, <3>2 DEF PageInLine
  <2>2. PICK p : p = IF w.answer = "verified" THEN [taken EXCEPT !.hold[1].verified = TRUE]
                     ELSE taken
    OBVIOUS
  <2>3. page' = p
    BY <1>8, <1>13, <2>2 DEF FrameAnswered
  <2>4. /\ Like(p) /\ p.hold[1].failure = page.hold[1].failure
        /\ p.hold[1].retry = page.hold[1].retry /\ p.hold[1].generation = g
    <3>1. CASE w.answer = "pending"
      BY <1>1, <1>9, <2>2, <3>1 DEF Settled, Sound
    <3>2. CASE w.answer = "verified"
      <4>1. PICK h : h = [page.hold[1] EXCEPT !.verified = TRUE]
        OBVIOUS
      <4>2. /\ h \in Held /\ h.failure = page.hold[1].failure /\ h.verified
            /\ h.retry = page.hold[1].retry /\ h.generation = g
        BY <1>1, <4>1, PageType DEF Held
      <4>3. p = [taken EXCEPT !.hold = [@ EXCEPT ![1] = h]]
        BY <1>9, <2>2, <3>2, <4>1 DEF PageState, Held
      <4>4. s.status = "verified"
        BY <1>1, <3>2 DEF OnTheWire
      <4> QED BY <1>9, <4>2, <4>3, <4>4, HoldReplaced
    <3> QED BY <1>13, <3>1, <3>2
  <2>5. Holding(p) = Holding(page) /\ RetryHeld(p) = RetryHeld(page) /\ Agreed(p) = n
    <3>1. RetryHeld(p) = RetryHeld(page)
      BY <1>1, <2>4, PageType DEF RetryHeld, None
    <3> QED BY <2>4, <3>1 DEF Holding, Agreed
  <2>6. Holding(p) => PageInLine(p, s, v, n)
    BY <1>9, <2>1, <2>4, <2>5 DEF PageInLine
  <2> QED BY <1>1, <1>2, <1>10, <2>3, <2>4, <2>5, <2>6 DEF Settled
<1> QED BY <1>1, <1>2, <1>11, <1>12, <1>13 DEF WireState

LEMMA LossKeeps ==
  ASSUME OneAttempt, CaptureInv, ConnectionLost(1) \/ SessionExpires(1) \/ ServerRestarts
  PROVE  CaptureInv'
<1> DEFINE s == session[1]
           w == wire[1]
           q == page.queue[1]
<1>1. /\ page \in PageState /\ s \in SessionState /\ OnTheWire(q, s, w) /\ w \in WireState
      /\ Settled(page, s, w) /\ page' = page
      /\ session \in [{1} -> SessionState] /\ wire \in [{1} -> WireState]
  BY InvType DEF CaptureInv, ConnectionLost, SessionExpires, ServerRestarts
<1>2. PICK t, v :
        /\ session' = [session EXCEPT ![1] = t] /\ wire' = [wire EXCEPT ![1] = v]
        /\ t \in {s, [s EXCEPT !.late = TRUE], [s EXCEPT !.kept = FALSE]}
        /\ v = w \/ (w.at # "idle" /\ v = [at |-> "answered", answer |-> "error"])
        /\ v # w => w.at # "judging" \/ ~t.kept
  <2>1. CASE ConnectionLost(1)
    <3>1. /\ session' = [session EXCEPT ![1] = s] /\ w.at \in {"sent", "answered"}
          /\ wire' = [wire EXCEPT ![1] = [at |-> "answered", answer |-> "error"]]
      BY <1>1, <2>1 DEF ConnectionLost, Answer
    <3> QED BY <3>1
  <2>2. CASE SessionExpires(1)
    <3>1. PICK t : t = [s EXCEPT !.late = TRUE]
      OBVIOUS
    <3>2. session' = [session EXCEPT ![1] = t] /\ wire' = [wire EXCEPT ![1] = w]
      BY <1>1, <2>2, <3>1 DEF SessionExpires
    <3>3. t.kept = s.kept
      BY <1>1, <3>1 DEF SessionState
    <3> QED BY <3>1, <3>2, <3>3
  <2>3. CASE ServerRestarts
    <3>1. PICK t : t = [s EXCEPT !.kept = FALSE]
      OBVIOUS
    <3>2. PICK v : v = IF w.at = "idle" THEN w ELSE [at |-> "answered", answer |-> "error"]
      OBVIOUS
    <3>3. session' = [session EXCEPT ![1] = t] /\ wire' = [wire EXCEPT ![1] = v]
      BY <1>1, <2>3, <3>1, <3>2, OneIsAll DEF ServerRestarts
    <3>4. ~t.kept
      BY <1>1, <3>1 DEF SessionState
    <3> QED BY <3>1, <3>2, <3>3, <3>4
  <2> QED BY <2>1, <2>2, <2>3
<1>3. /\ t \in SessionState /\ t.received = s.received /\ t.status = s.status
      /\ t.busy = s.busy /\ t.disorder = s.disorder /\ t.final = s.final
      /\ t.kept = s.kept \/ ~t.kept
  BY <1>1, <1>2 DEF SessionState
<1>4. v \in WireState
  BY <1>1, <1>2 DEF WireState
<1>5. OnTheWire(q, t, v)
  BY <1>1, <1>2, <1>3 DEF OnTheWire
<1>6. Holding(page) => PageInLine(page, t, v, Agreed(page))
  <2>1. /\ \A b \in 0..4 : ServerAt(s, w, b) => ServerAt(t, v, b)
        /\ v.at # "idle" => w.at # "idle"
    BY <1>2, <1>3 DEF ServerAt, OnTheWire
  <2>2. \A g, photo, n : InLine(q, g, photo, s, w, n) => InLine(q, g, photo, t, v, n)
    BY <2>1 DEF InLine
  <2> QED BY <1>1, <2>2 DEF Settled, PageInLine
<1>7. q # <<>> \/ v = wire[1]
  BY <1>1, <1>2 DEF OnTheWire
<1> QED BY <1>1, <1>2, <1>3, <1>4, <1>5, <1>6, <1>7, ServerStepKeeps DEF Settled

-----------------------------------------------------------------------------
LEMMA CaptureBegins == ASSUME OneAttempt, CaptureInit PROVE CaptureInv
<1>1. /\ page \in PageState /\ page.holds = None /\ page.waiting = None /\ page.verified = None
      /\ page.run[1].at = "unused" /\ page.queue[1] = <<>> /\ page.hold[1] = FreshHold
  BY OneIsAll, StepsAre, GuidedCaptureAssumption
  DEF CaptureInit, BlankPage, PageState, Standing, Held, FreshHold, Pictures, None
<1>2. /\ session \in [{1} -> SessionState] /\ session[1] = NoSession
  BY OneIsAll DEF CaptureInit, NoSession, SessionState, Pictures
<1>3. /\ wire \in [{1} -> WireState] /\ wire[1] = Quiet
  BY OneIsAll DEF CaptureInit, Quiet, WireState
<1> QED BY <1>1, <1>2, <1>3
        DEF CaptureInv, Settled, Sound, OnTheWire, Holding, FreshHold, NoSession, Quiet, None

LEMMA CaptureStepKeeps ==
  ASSUME OneAttempt, CaptureInv, [CaptureNext]_captureVars
  PROVE  CaptureInv'
<1>1. CASE Admin
  BY <1>1, AdminKeeps
<1>2. ASSUME NEW a \in Attempts, Attempt(a) PROVE CaptureInv'
  BY <1>2, OneIsAll, SessionOpensKeeps, StepEndsKeeps, StepSeenKeeps, PauseEndsKeeps,
     VerdictKeeps DEF Attempt
<1>3. ASSUME NEW a \in Attempts, Frames(a) PROVE CaptureInv'
  BY <1>3, OneIsAll, FrameLeavesKeeps, FrameArrivesKeeps, FrameIsJudgedKeeps,
     FrameAnsweredKeeps, LossKeeps DEF Frames
<1>4. CASE (\E a \in Attempts : SessionExpires(a)) \/ ServerRestarts
  BY <1>4, OneIsAll, LossKeeps
<1>5. CASE UNCHANGED captureVars
  BY <1>5 DEF captureVars, CaptureInv
<1> QED BY <1>1, <1>2, <1>3, <1>4, <1>5 DEF CaptureNext

LEMMA CaptureInvHolds == ASSUME OneAttempt PROVE CaptureSpec => []CaptureInv
<1>1. CaptureInit => CaptureInv
  BY CaptureBegins
<1>2. CaptureInv /\ [CaptureNext]_captureVars => CaptureInv'
  BY CaptureStepKeeps
<1> QED BY <1>1, <1>2, PTL DEF CaptureSpec

\* FaceRegistrationPage and RegistrationLivenessService: whatever is redone on
\* either side, lost, late or cancelled, the server never refuses a frame of an
\* attempt as out of order or as overlapping another.
THEOREM PageAndServerAgree == ASSUME OneAttempt PROVE CaptureSpec => []StepsAgree
<1>1. CaptureInv => StepsAgree
  BY OneIsAll DEF CaptureInv, Settled, Sound, OnTheWire, StepsAgree
<1> QED BY <1>1, CaptureInvHolds, PTL

\* The session the page would register was verified by the server with the
\* photo the admin reviews, not with one that was retaken since.
THEOREM ReviewedIsVerified == ASSUME OneAttempt PROVE CaptureSpec => []VerifiedIsReviewed
<1>1. CaptureInv => VerifiedIsReviewed
  BY PageType DEF CaptureInv, Settled, Sound, VerifiedIsReviewed
<1> QED BY <1>1, CaptureInvHolds, PTL

-----------------------------------------------------------------------------
(***************************************************************************)
(* 5. The delayed descriptor.                                              *)
(***************************************************************************)
InFlight(a) == save[a].at \in {"writing", "written"}

Profiles == [state : {"absent", "active", "archived", "removed"},
             photo : Nat, descriptor : Nat, at : Nat]
Calls == [at : {"idle", "finding", "writing", "written"}, session : Nat, row : Nat, time : Nat]

Typed ==
  /\ captured \in [Sessions -> {"running", "verified", "gone"}]
  /\ row \in [Rows -> Profiles]
  /\ save \in [Admins -> Calls]
  /\ jobs \subseteq [row : Nat, at : Nat, photo : Nat]
  /\ clock \in Nat

\* No time is handed out twice.
TimesArePast ==
  /\ \A r \in Rows : row[r].at < clock
  /\ \A a \in Admins : InFlight(a) => save[a].time < clock
  /\ \A j \in jobs : j.at < clock

\* Equal times, equal photos.
SavesAgree == \A a, b \in Admins :
  InFlight(a) /\ InFlight(b) /\ save[a].time = save[b].time => save[a].session = save[b].session
RowsAgree == \A r \in Rows, a \in Admins :
  InFlight(a) /\ row[r].at = save[a].time => row[r].photo = save[a].session
JobsAgreeWithSaves == \A j \in jobs, a \in Admins :
  InFlight(a) /\ j.at = save[a].time => j.photo = save[a].session
JobsAgreeWithRows == \A j \in jobs, r \in Rows : row[r].at = j.at => row[r].photo = j.photo

IInv ==
  /\ Typed /\ TimesArePast
  /\ SavesAgree /\ RowsAgree /\ JobsAgreeWithSaves /\ JobsAgreeWithRows
  /\ DescriptorOfPhoto

LEMMA InitHolds == Init => IInv
  BY FaceProfilesAssumption
  DEF Init, IInv, Typed, TimesArePast, SavesAgree, RowsAgree, JobsAgreeWithSaves,
      JobsAgreeWithRows, DescriptorOfPhoto, InFlight, Profiles, Calls, NoProfile, Idle, NoRow

\* A save's steps: the time it takes is new, what it writes and the job it
\* leaves carry its own time and photo.
LEMMA SavingKeeps == ASSUME IInv, NEW a \in Admins, Saving(a) PROVE IInv'
<1> USE FaceProfilesAssumption
    DEF IInv, Typed, TimesArePast, SavesAgree, RowsAgree, JobsAgreeWithSaves,
        JobsAgreeWithRows, DescriptorOfPhoto, InFlight, Profiles, Calls
<1>1. CASE \E s \in Sessions : SaveBegins(a, s)
  <2>1. PICK s \in Sessions :
          save' = [save EXCEPT ![a] = Call(s)]
    BY <1>1 DEF SaveBegins
  <2>2. UNCHANGED <<captured, row, jobs, clock>>
    BY <1>1 DEF SaveBegins
  <2>3. Call(s) \in Calls /\ Call(s).at = "finding"
    BY DEF Call, NoRow
  <2>4. Typed' /\ TimesArePast' /\ SavesAgree' /\ RowsAgree' /\ JobsAgreeWithSaves'
    BY <2>1, <2>2, <2>3
  <2>5. JobsAgreeWithRows' /\ DescriptorOfPhoto'
    BY <2>2
  <2> QED
    BY <2>4, <2>5
<1>2. CASE SaveFinds(a)
  <2>1. PICK found \in IF Active = {} THEN {NoRow} ELSE Active :
          save' = [save EXCEPT ![a].at = "writing", ![a].row = found, ![a].time = clock]
    BY <1>2 DEF SaveFinds
  <2>2. found \in Nat
    BY <2>1 DEF Active, NoRow
  <2>3. UNCHANGED <<captured, row, jobs>> /\ clock' = clock + 1
    BY <1>2 DEF SaveFinds
  <2>4. Typed'
    <3>1. save[a] \in Calls
      OBVIOUS
    <3>2. [save[a] EXCEPT !.at = "writing", !.row = found, !.time = clock] \in Calls
      BY <2>2, <3>1
    <3>3. save' \in [Admins -> Calls]
      BY <2>1, <3>2
    <3> QED
      BY <2>3, <3>3
  <2>5. TimesArePast'
    BY <2>1, <2>3
  <2>6. SavesAgree' /\ RowsAgree' /\ JobsAgreeWithSaves'
    BY <2>1, <2>3
  <2>7. JobsAgreeWithRows' /\ DescriptorOfPhoto'
    BY <2>3
  <2> QED
    BY <2>4, <2>5, <2>6, <2>7
<1>3. CASE SaveReplaces(a)
  <2> DEFINE r == save[a].row
  <2>1. /\ InFlight(a) /\ row[r].state \in {"active", "archived"}
        /\ row' = [row EXCEPT ![r] = Written(a, row[r].state)]
        /\ save' = [save EXCEPT ![a].at = "written"]
        /\ UNCHANGED <<captured, jobs, clock>>
    BY <1>3 DEF SaveReplaces
  <2>2. Typed'
    <3>1. Written(a, row[r].state) \in Profiles
      BY <2>1 DEF Written
    <3>2. row' \in [Rows -> Profiles]
      BY <2>1, <3>1
    <3>3. \A b \in Admins : save'[b] \in Calls
      BY <2>1
    <3> QED
      BY <2>1, <3>2, <3>3
  <2>3. TimesArePast' /\ SavesAgree' /\ RowsAgree' /\ JobsAgreeWithSaves'
    BY <2>1 DEF Written
  <2>4. JobsAgreeWithRows' /\ DescriptorOfPhoto'
    BY <2>1 DEF Written
  <2> QED
    BY <2>2, <2>3, <2>4
<1>4. CASE \E r \in Rows : SaveCreates(a, r)
  BY <1>4 DEF SaveCreates, Written, NoRow
<1>5. CASE SaveEnds(a)
  <2> DEFINE job == [row |-> save[a].row, at |-> save[a].time, photo |-> save[a].session]
  <2>1. /\ InFlight(a)
        /\ captured' = [captured EXCEPT ![save[a].session] = "gone"]
        /\ jobs' = jobs \cup {job}
        /\ save' = [save EXCEPT ![a] = [at |-> "idle", session |-> 0, row |-> 0, time |-> 0]]
        /\ UNCHANGED <<row, clock>>
    BY <1>5 DEF SaveEnds, Idle, NoRow
  <2>2. Typed'
    <3>1. job \in [row : Nat, at : Nat, photo : Nat]
      OBVIOUS
    <3>2. \A b \in Admins : save'[b] \in Calls
      BY <2>1
    <3>3. captured' \in [Sessions -> {"running", "verified", "gone"}]
      BY <2>1
    <3> QED
      BY <2>1, <3>1, <3>2, <3>3
  <2>3. TimesArePast' /\ SavesAgree' /\ RowsAgree' /\ DescriptorOfPhoto'
    BY <2>1
  <2>4. JobsAgreeWithSaves' /\ JobsAgreeWithRows'
    BY <2>1
  <2> QED
    BY <2>2, <2>3, <2>4
<1>6. CASE SaveFails(a)
  BY <1>6 DEF SaveFails, Idle, NoRow
<1> QED
  BY <1>1, <1>2, <1>3, <1>4, <1>5, <1>6 DEF Saving

LEMMA NextKeeps == ASSUME IInv, [Next]_vars PROVE IInv'
<1> USE FaceProfilesAssumption
    DEF IInv, Typed, TimesArePast, SavesAgree, RowsAgree, JobsAgreeWithSaves,
        JobsAgreeWithRows, DescriptorOfPhoto, InFlight, Profiles, Calls
<1>1. CASE \E s \in Sessions : Verify(s) \/ Expire(s)
  BY <1>1 DEF Verify, Expire
<1>2. CASE \E a \in Admins : Saving(a)
  BY <1>2, SavingKeeps
<1>3. ASSUME NEW j \in jobs, DescriptorKept(j) PROVE IInv'
  <2>1. /\ row' = [r \in Rows |->
                    IF Matches(j, r) THEN [row[r] EXCEPT !.descriptor = j.photo] ELSE row[r]]
        /\ jobs' = jobs \ {j}
        /\ UNCHANGED <<captured, save, clock>>
    BY <1>3 DEF DescriptorKept
  <2>2. \A r \in Rows : row'[r].at = row[r].at /\ row'[r].photo = row[r].photo
    BY <2>1
  <2>3. Typed'
    BY <2>1
  <2>4. TimesArePast' /\ SavesAgree' /\ RowsAgree' /\ JobsAgreeWithSaves' /\ JobsAgreeWithRows'
    BY <2>1, <2>2
  <2>5. DescriptorOfPhoto'
    BY <2>1 DEF Matches
  <2> QED
    BY <2>3, <2>4, <2>5
<1>4. ASSUME NEW j \in jobs, DescriptorLost(j) PROVE IInv'
  BY <1>4 DEF DescriptorLost
<1>5. CASE \E r \in Rows : Archive(r) \/ Remove(r)
  <2>1. PICK r \in Rows, state \in {"archived", "removed"} :
          /\ row' = [row EXCEPT ![r].state = state]
          /\ UNCHANGED <<captured, save, jobs, clock>>
    BY <1>5 DEF Archive, Remove
  <2>2. \A q \in Rows : /\ row'[q].at = row[q].at /\ row'[q].photo = row[q].photo
                        /\ row'[q].descriptor = row[q].descriptor
    BY <2>1
  <2>3. row' \in [Rows -> Profiles]
    <3>1. \A q \in Rows : row'[q] \in Profiles
      BY <2>1
    <3> QED
      BY <2>1, <3>1
  <2>4. Typed'
    BY <2>1, <2>3
  <2>5. TimesArePast' /\ SavesAgree' /\ RowsAgree' /\ JobsAgreeWithSaves' /\ JobsAgreeWithRows'
    BY <2>1, <2>2
  <2>6. DescriptorOfPhoto'
    BY <2>2
  <2> QED
    BY <2>4, <2>5, <2>6
<1>6. CASE Restart
  BY <1>6 DEF Restart, Idle, NoRow
<1>7. CASE UNCHANGED vars
  BY <1>7 DEF vars
<1> QED
  BY <1>1, <1>2, <1>3, <1>4, <1>5, <1>6, <1>7 DEF Next

\* However late a descriptor is computed and whatever else was saved, archived
\* or deleted meanwhile, it is stored only beside the photo it came from.
THEOREM FaceDescriptorOfPhoto == Spec => []DescriptorOfPhoto
<1>1. IInv => DescriptorOfPhoto
  BY DEF IInv
<1> QED
  BY InitHolds, NextKeeps, <1>1, PTL DEF Spec
=============================================================================
