---------------------------- MODULE GuidedCapture ----------------------------
(***************************************************************************)
(* The guided capture of Face Registration: the admin's page              *)
(* (FaceRegistrationPage.tsx) leads the employee through five steps and    *)
(* sends key frames in the background, one after another; the server       *)
(* (registration-liveness.service.ts) judges each frame against the step   *)
(* it expects, may send the page back to an earlier step, and verifies     *)
(* the session with the last photo.                                        *)
(*                                                                         *)
(* The page is one thread: whatever wakes it (a step seen, a timer, an     *)
(* answer, a button) runs to the next await. Such a run is a function from *)
(* the page's state to its next state. Attempts and server sessions are    *)
(* numbered alike: attempt a opens session a.                              *)
(***************************************************************************)
EXTENDS Integers, Sequences

CONSTANTS
  MaxAttempts,    \* bound: presses of "Start guided capture"
  PageRetries,    \* LIVENESS_MAX_STEP_RETRIES
  ServerRetries   \* MAX_STEP_RETRIES

ASSUME GuidedCaptureAssumption ==
  /\ MaxAttempts \in Nat \ {0}
  /\ PageRetries \in Nat
  /\ ServerRetries \in Nat

Attempts == 1..MaxAttempts
None == 0

\* Photos are told apart by the attempt and the retries it had left.
Photos == Attempts \X (0..PageRetries)
NoPhoto == <<0, 0>>

Steps == <<"straight", "blink", "left", "right", "center">>
StepNumbers == 1..Len(Steps)
Kinds == <<"closed", "open", "right", "final">>

\* The page step a frame belongs to, and the first frame of that step.
StepOf(kind) == CASE kind \in {"closed", "open"} -> 2
                  [] kind = "right" -> 4
                  [] kind = "final" -> 5
FirstOf(kind) == CASE kind \in {"closed", "open"} -> 0
                   [] kind = "right" -> 2
                   [] kind = "final" -> 3

VARIABLES
  page,     \* refs and state of the page, its attempts and queued frames
  session,  \* the server's sessions
  wire      \* per session: the frame request on its way, and its answer

----------------------------------------------------------------------------
(* The page: refs, and what a thrown error, a redo or a return leaves.     *)

\* What the page keeps of a session (livenessSessionRef points at one).
FreshHold == [failure |-> FALSE, verified |-> FALSE, retry |-> None, generation |-> 0]

\* Running on: `frameChain` starts over with each session, and callbacks of
\* an older chain end at once because the page holds another session.
BlankPage ==
  [going |-> FALSE, busy |-> FALSE, camera |-> FALSE, shown |-> FALSE, verifying |-> FALSE,
   holds |-> None, chain |-> None, waiting |-> None, preview |-> NoPhoto, verified |-> None,
   hold |-> [a \in Attempts |-> FreshHold],
   queue |-> [a \in Attempts |-> <<>>],
   run |-> [a \in Attempts |-> [at |-> "unused", step |-> 1, left |-> PageRetries, awaits |-> None]]]

\* The attempt's function returns; its finally block frees the buttons.
Returned(p, a) == [p EXCEPT !.run[a].at = "ended", !.busy = FALSE]

\* The outer catch: "Never leave an unverified capture behind".
Failed(p, a) ==
  Returned([p EXCEPT !.going = FALSE, !.holds = None, !.verifying = FALSE,
                     !.preview = NoPhoto, !.shown = TRUE], a)

\* Thrown inside the loop: an attempt that was cancelled only returns.
Thrown(p, a) == IF p.going THEN Failed(p, a) ELSE Returned(p, a)

FailureHeld(p) == p.holds # None /\ p.hold[p.holds].failure
RetryHeld(p) == IF p.holds = None THEN None ELSE p.hold[p.holds].retry

\* waitForStep installs this attempt's listener over any other.
Waiting(p, a, step) ==
  [p EXCEPT !.run[a].at = "step", !.run[a].step = step, !.waiting = a, !.shown = TRUE]

\* The inner catch for LivenessStepRetry: back to `step` while retries last.
LeftAsBefore(left) == left
LeftAfterRedo(left) == left - 1

Spent(p, a) == p.run[a].left = 0

Redo(p, a, step) ==
  LET cleared == IF p.holds = None THEN p ELSE [p EXCEPT !.hold[p.holds].retry = None]
      again == [cleared EXCEPT !.run[a].left = LeftAfterRedo(@), !.verifying = FALSE]
  IN  IF ~p.going THEN Returned(p, a)
      ELSE IF Spent(p, a) \/ FailureHeld(p) THEN Failed(p, a)
      ELSE Waiting(again, a, step)

\* throwIfLivenessFailed, then `next`.
Unless(p, a, next) ==
  IF FailureHeld(p) THEN Thrown(p, a)
  ELSE IF RetryHeld(p) # None THEN Redo(p, a, RetryHeld(p))
  ELSE next

\* The top of the loop over the steps.
LoopTop(p, a, step) ==
  IF ~p.going THEN Returned(p, a) ELSE Unless(p, a, Waiting(p, a, step))

\* livenessAbortRef: stops the step some attempt is in, if one is.
Cancelled(p) ==
  IF p.waiting = None THEN p
  ELSE Returned([p EXCEPT !.waiting = None], p.waiting)
AbortFailed(p) ==
  IF p.waiting = None THEN p
  ELSE Thrown([p EXCEPT !.waiting = None], p.waiting)
AbortRedo(p, step) ==
  IF p.waiting = None THEN p
  ELSE Redo([p EXCEPT !.waiting = None], p.waiting, step)

ClearLiveness(p) ==
  [Cancelled(p) EXCEPT !.holds = None, !.verifying = FALSE, !.shown = FALSE]
StopCamera(p) ==
  [ClearLiveness([p EXCEPT !.going = FALSE]) EXCEPT !.camera = FALSE, !.busy = FALSE]
ResetKeepsVerified(p) ==
  [ClearLiveness([p EXCEPT !.going = FALSE]) EXCEPT !.preview = NoPhoto, !.busy = FALSE]
ResetCapture(p) ==
  [ClearLiveness([p EXCEPT !.going = FALSE])
     EXCEPT !.verified = None, !.preview = NoPhoto, !.busy = FALSE]

\* submitLivenessFrame: queued behind the frames of the session held now.
Submit(p, kind, photo) ==
  IF p.holds = None \/ RetryHeld(p) # None THEN p
  ELSE [p EXCEPT !.queue[p.holds] =
          Append(@, [kind |-> kind, photo |-> photo, generation |-> p.hold[p.holds].generation])]

----------------------------------------------------------------------------
(* The server: one session per attempt, kept in memory.                    *)

NoSession ==
  [kept |-> FALSE, status |-> "pending", received |-> 0, retries |-> 0, closed |-> FALSE,
   busy |-> FALSE, late |-> FALSE, final |-> NoPhoto, disorder |-> FALSE]

\* createSession: sweep what expired, then a pending session.
Created(a) ==
  [s \in Attempts |->
     IF s = a THEN [NoSession EXCEPT !.kept = TRUE]
     ELSE [session[s] EXCEPT !.kept = @ /\ ~session[s].late]]

OutOfOrder(s, kind) ==
  session[s].busy \/ session[s].received >= Len(Kinds) \/ kind # Kinds[session[s].received + 1]

\* Where retryStep rewinds to.
RewoundToFrame(kind) == IF kind = "open" THEN 1 ELSE FirstOf(kind)
Rewound(kind) == FirstOf(kind)

\* checkFrame's three outcomes.
JudgedBad(s) == [session EXCEPT ![s].status = "failed", ![s].busy = FALSE]
JudgedAgain(s, kind) ==
  [session EXCEPT ![s].retries = @ + 1, ![s].received = Rewound(kind),
                  ![s].closed = FALSE, ![s].busy = FALSE]
JudgedGood(s, frame) ==
  LET taken == [session EXCEPT ![s].received = @ + 1, ![s].busy = FALSE,
                               ![s].closed = @ \/ frame.kind = "closed"]
  IN  IF frame.kind # "final" THEN taken
      ELSE [taken EXCEPT ![s].status = "verified", ![s].final = frame.photo, ![s].late = FALSE]

Quiet == [at |-> "idle", answer |-> "none"]
Answer(s, answer) == [wire EXCEPT ![s] = [at |-> "answered", answer |-> answer]]

----------------------------------------------------------------------------
CaptureInit ==
  /\ page = BlankPage
  /\ session = [s \in Attempts |-> NoSession]
  /\ wire = [s \in Attempts |-> Quiet]

Server == <<session, wire>>

(* What the admin does.                                                    *)

\* startCamera, once the browser has given the stream.
StartCamera ==
  /\ ~page.busy /\ ~page.camera
  /\ page' = [StopCamera(page) EXCEPT !.camera = TRUE, !.verified = None, !.preview = NoPhoto]
  /\ UNCHANGED Server

Unused == {a \in Attempts : page.run[a].at = "unused"}

Start(a) ==
  /\ page.camera /\ ~page.busy
  /\ a \in Unused /\ \A b \in Unused : a <= b
  /\ page' = [page EXCEPT !.going = TRUE, !.busy = TRUE, !.preview = NoPhoto, !.verified = None,
                          !.run[a].at = "asking"]
  /\ UNCHANGED Server

Reset ==
  /\ page.busy => page.shown
  /\ page.camera \/ page.preview # NoPhoto
  /\ page' = ResetCapture(page)
  /\ UNCHANGED Server

\* Retake in the photo review: stop, reset, and start the camera again.
Retake ==
  /\ page.preview # NoPhoto
  /\ page.busy => page.verifying
  /\ page' = ResetCapture(StopCamera(page))
  /\ UNCHANGED Server

CameraLost ==
  /\ page.camera
  /\ page' = StopCamera(page)
  /\ UNCHANGED Server

(* The attempt's function, from one await to the next.                     *)

\* The session is made and its answer has come.
SessionOpens(a) ==
  /\ page.run[a].at = "asking"
  /\ session' = Created(a)
  /\ page' = IF ~page.going THEN Returned(page, a)
             ELSE LoopTop([page EXCEPT !.holds = a, !.chain = a], a, 1)
  /\ UNCHANGED wire

SessionRefused(a) ==
  /\ page.run[a].at = "asking"
  /\ page' = Failed(page, a)
  /\ UNCHANGED Server

PhotoOf(a) == <<a, page.run[a].left>>

\* The tracker sees the movement this attempt's listener is waiting for;
\* the frames of the step go to the queue.
StepSeen(a) ==
  LET seen == [page EXCEPT !.waiting = None, !.run[a].at = "pausing"]
      photo == PhotoOf(a)
      sent == CASE Steps[page.run[a].step] = "blink" ->
                     Submit(Submit(seen, "closed", photo), "open", photo)
                [] Steps[page.run[a].step] = "right" -> Submit(seen, "right", photo)
                [] Steps[page.run[a].step] = "center" ->
                     Submit([seen EXCEPT !.preview = photo], "final", photo)
                [] OTHER -> seen
  IN  /\ page.run[a].at = "step" /\ page.waiting = a
      /\ page' = Unless(sent, a, sent)
      /\ UNCHANGED Server

\* Not done in time, or the photo could not be taken: the step again. The
\* timer clears whichever listener is there.
StepMissed(a) ==
  /\ page.run[a].at = "step"
  /\ page' = Redo([page EXCEPT !.waiting = None], a, page.run[a].step)
  /\ UNCHANGED Server

\* Looks in a row that do not show a live face (checkLive).
NotLive(a) ==
  /\ page.run[a].at = "step" /\ page.waiting = a
  /\ page' = Thrown([page EXCEPT !.waiting = None], a)
  /\ UNCHANGED Server

\* The pause after a step is over: the next one, or wait for the verdict.
PauseEnds(a) ==
  /\ page.run[a].at = "pausing"
  /\ page' = IF page.run[a].step < Len(Steps) THEN LoopTop(page, a, page.run[a].step + 1)
             ELSE IF ~page.going THEN Returned(page, a)
             ELSE [page EXCEPT !.verifying = TRUE, !.run[a].at = "judging",
                               !.run[a].awaits = page.chain]
  /\ UNCHANGED Server

\* livenessTimedOut: the queue is empty, or a minute has passed.
ChainDone(a) == page.queue[page.run[a].awaits] = <<>>

Verdict(a) ==
  LET quiet == [page EXCEPT !.verifying = FALSE]
      done == [Returned(quiet, a) EXCEPT !.verified = a]
  IN  IF page.holds = None \/ ~page.hold[page.holds].verified
      THEN Unless(quiet, a, Thrown(quiet, a))
      ELSE Unless(quiet, a, StopCamera(done))

VerdictIsIn(a) ==
  /\ page.run[a].at = "judging"
  /\ ChainDone(a)
  /\ page' = IF page.going THEN Verdict(a) ELSE Returned(page, a)
  /\ UNCHANGED Server

VerdictTimesOut(a) ==
  /\ page.run[a].at = "judging"
  /\ ~ChainDone(a)
  /\ page' = Thrown([page EXCEPT !.verifying = ~page.going /\ @], a)
  /\ UNCHANGED Server

(* Frames, one at a time per session.                                      *)

Stale(s, frame) ==
  page.hold[s].failure \/ page.holds # s \/ frame.generation # page.hold[s].generation

\* The callback at the head of the chain drops the frame or sends it.
FrameLeaves(s) ==
  /\ page.queue[s] # <<>> /\ wire[s].at = "idle"
  /\ IF Stale(s, Head(page.queue[s]))
     THEN page' = [page EXCEPT !.queue[s] = Tail(@)] /\ UNCHANGED wire
     ELSE wire' = [wire EXCEPT ![s].at = "sent"] /\ UNCHANGED page
  /\ UNCHANGED session

\* submitFrame up to its await.
FrameArrives(s) ==
  LET kind == Head(page.queue[s]).kind
      refused == session[s].late \/ OutOfOrder(s, kind)
  IN  /\ wire[s].at = "sent"
      /\ IF ~session[s].kept
         THEN wire' = Answer(s, "error") /\ UNCHANGED session
         ELSE IF session[s].status # "pending"
         THEN wire' = Answer(s, session[s].status) /\ UNCHANGED session
         ELSE IF refused
         THEN /\ session' = [session EXCEPT ![s].status = "failed",
                                            ![s].disorder = ~session[s].late]
              /\ wire' = Answer(s, "failed")
         ELSE /\ session' = [session EXCEPT ![s].busy = TRUE]
              /\ wire' = [wire EXCEPT ![s].at = "judging"]
      /\ UNCHANGED page

\* A photo or screen, a second face, a frozen or unreadable picture.
FrameIsBad(s) ==
  /\ wire[s].at = "judging"
  /\ session' = JudgedBad(s)
  /\ wire' = Answer(s, "failed")
  /\ UNCHANGED page

\* The step was not done well enough; past the retries the session fails.
FrameIsWeak(s) ==
  /\ wire[s].at = "judging"
  /\ IF session[s].retries >= ServerRetries
     THEN session' = JudgedBad(s) /\ wire' = Answer(s, "failed")
     ELSE /\ session' = JudgedAgain(s, Head(page.queue[s]).kind)
          /\ wire' = Answer(s, "retry")
  /\ UNCHANGED page

\* An open frame is compared with the closed one before it.
FrameIsGood(s) ==
  LET frame == Head(page.queue[s])
  IN  /\ wire[s].at = "judging"
      /\ frame.kind = "open" => session[s].closed
      /\ session' = JudgedGood(s, frame)
      /\ wire' = Answer(s, session'[s].status)
      /\ UNCHANGED page

\* The page reads the answer to its frame.
FrameAnswered(s) ==
  LET taken == [page EXCEPT !.queue[s] = Tail(@)]
      step == StepOf(Head(page.queue[s]).kind)
      failed == [taken EXCEPT !.hold[s].failure = TRUE]
      again == [taken EXCEPT !.hold[s].retry = step, !.hold[s].generation = @ + 1]
  IN  /\ wire[s].at = "answered"
      /\ page' = CASE wire[s].answer = "failed" ->
                        IF page.holds = s THEN AbortFailed(failed) ELSE failed
                   [] wire[s].answer = "retry" ->
                        IF page.holds = s THEN AbortRedo(again, step) ELSE again
                   [] wire[s].answer = "verified" -> [taken EXCEPT !.hold[s].verified = TRUE]
                   [] wire[s].answer = "error" -> failed
                   [] OTHER -> taken
      /\ wire' = [wire EXCEPT ![s] = Quiet]
      /\ UNCHANGED session

\* The request or its answer is lost on the way.
ConnectionLost(s) ==
  /\ wire[s].at \in {"sent", "answered"}
  /\ wire' = Answer(s, "error")
  /\ UNCHANGED <<page, session>>

SessionExpires(s) ==
  /\ session[s].kept
  /\ session' = [session EXCEPT ![s].late = TRUE]
  /\ UNCHANGED <<page, wire>>

\* Sessions live in memory; requests under way fail.
ServerRestarts ==
  /\ session' = [s \in Attempts |-> [session[s] EXCEPT !.kept = FALSE]]
  /\ wire' = [s \in Attempts |->
               IF wire[s].at = "idle" THEN wire[s] ELSE [at |-> "answered", answer |-> "error"]]
  /\ UNCHANGED page

----------------------------------------------------------------------------
Admin == StartCamera \/ Reset \/ Retake \/ CameraLost \/ \E a \in Attempts : Start(a)

Attempt(a) ==
  \/ SessionOpens(a) \/ SessionRefused(a)
  \/ StepSeen(a) \/ StepMissed(a) \/ NotLive(a)
  \/ PauseEnds(a) \/ VerdictIsIn(a) \/ VerdictTimesOut(a)

Frames(s) ==
  \/ FrameLeaves(s) \/ FrameArrives(s) \/ FrameIsBad(s) \/ FrameIsWeak(s) \/ FrameIsGood(s)
  \/ FrameAnswered(s) \/ ConnectionLost(s)

CaptureNext ==
  \/ Admin
  \/ \E a \in Attempts : Attempt(a)
  \/ \E s \in Attempts : Frames(s) \/ SessionExpires(s)
  \/ ServerRestarts

captureVars == <<page, session, wire>>

\* Only what has a timer of its own is fair: the employee may never make the
\* movement, and neither a frame nor the request that opens the session need
\* ever be answered (apiRequest has no timeout).
Timers(a) ==
  /\ WF_captureVars(StepMissed(a))
  /\ WF_captureVars(PauseEnds(a))
  /\ WF_captureVars(VerdictIsIn(a) \/ VerdictTimesOut(a))

CaptureSpec == CaptureInit /\ [][CaptureNext]_captureVars /\ \A a \in Attempts : Timers(a)

----------------------------------------------------------------------------
(* Properties.                                                             *)

\* Retries stay within their bounds on the page and on the server, and every
\* reference points at an attempt, a step or a photo.
TypeOK ==
  /\ page.holds \in Attempts \cup {None} /\ page.waiting \in Attempts \cup {None}
  /\ page.verified \in Attempts \cup {None}
  /\ page.preview \in Photos \cup {NoPhoto}
  /\ \A a \in Attempts :
       /\ page.run[a].at \in {"unused", "asking", "step", "pausing", "judging", "ended"}
       /\ page.run[a].step \in StepNumbers /\ page.run[a].left \in 0..PageRetries
       /\ page.hold[a].generation \in 0..ServerRetries
       /\ page.hold[a].retry \in {None} \cup StepNumbers
       /\ session[a].received \in 0..Len(Kinds) /\ session[a].retries \in 0..ServerRetries
       /\ session[a].final \in Photos \cup {NoPhoto}

\* Page and server always agree on the step: no frame the page sends is
\* refused as out of order or as overlapping another, although the page runs
\* ahead of the verdicts and either side may go back to an earlier step.
StepsAgree == \A s \in Attempts : ~session[s].disorder

\* What can be registered is what the admin sees: the session the page would
\* send was verified by the server, with the photo in the review.
VerifiedIsReviewed ==
  page.verified # None =>
    /\ session[page.verified].status = "verified"
    /\ session[page.verified].final = page.preview

\* Once its session was opened or refused, an attempt always ends, and the
\* buttons are free again: every step, every pause and the wait for the verdict
\* has a timer, and steps are redone a bounded number of times. Before that
\* nothing ends it: the page waits for the session as long as it takes, with
\* Reset disabled.
AttemptEnds ==
  \A a \in Attempts :
    page.run[a].at \in {"step", "pausing", "judging"} ~> page.run[a].at = "ended"

\* "a failed or cancelled one is never resumed": once another attempt was
\* started, an earlier one only returns. The page does not keep this (an
\* attempt that awaits its session, a pause or the verdict when it is
\* cancelled finds sequenceRef set again by its successor).
OnlyTheLatestActs ==
  [][\A a, b \in Attempts :
       a < b /\ page.run[b].at # "unused" => page'.run[a].at \in {page.run[a].at, "ended"}]_page
=============================================================================
