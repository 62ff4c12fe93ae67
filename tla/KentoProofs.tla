---------------------------- MODULE KentoProofs -----------------------------
(***************************************************************************)
(* For any number of callers and instances, any capacity of the pipe and   *)
(* whatever kento does: the variables keep their types, and an answer "ok" *)
(* is true.  What makes the second inductive is where the units of a list  *)
(* are: those the child found are, at every moment, the ones still to be   *)
(* printed, in the pipe, and read.                                         *)
(*                                                                         *)
(* And the calls implement module Bridge: a child's effect, whenever it    *)
(* comes, is the one effect that its caller's call may have, a reading     *)
(* that nobody sees is a stutter, and what a killed call leaves behind is  *)
(* among the effects that Bridge lets come late.                           *)
(***************************************************************************)
EXTENDS Kento, TLAPS

\* Where a call has a child.
InHand == {"wait", "expired", "collect"}

\* What is true of a call m and the child k that it started.
Sound(m, k) ==
    /\ m.at \in InHand =>
          /\ m.ans = None
          /\ k.at # "gone"
          /\ m.op = "list" => k.run = "list"
          /\ m.op = "provision" => k.run \in {"create", "inspect"}
    /\ m.at \in InHand => m.op \in Ops /\ (m.op = "teardown" => k.run = "destroy")
    /\ m.at = "answered" => m.ans # None
    /\ m.ans \in {"err", "quorum"} => m.at = "answered" /\ k = NoKid
    /\ m.at = "collect" => k.at = "exited"
    /\ m.at = "idle" => m = NoCall /\ m.ans = None /\ k = NoKid
    /\ k.run \in {"create", "destroy"} => m.arg \in Guests
    /\ k.code = "ok" => k.at = "exited" /\ k.done /\ k.todo = {}
    /\ ~k.done => k.seen = {}
    /\ m.op = "list" /\ m.ans \in {None, "ok"} => k.seen = m.got \cup k.pipe \cup k.todo
    /\ m.ans = "ok" =>
          /\ m.at = "answered"
          /\ k.code = "ok" /\ k.pipe = {}
          /\ m.op = "provision" => k.run = "inspect"

KentoInv == KentoTypeOK /\ \A c \in Callers : Sound(call[c], kid[c])

LEMMA Records ==
    /\ NoCall \in CallLocals /\ NoKid \in KidLocals
    /\ \A run \in Runs : Spawned(run) \in KidLocals
    /\ Sound(NoCall, NoKid)
BY DEF NoCall, NoKid, CallLocals, KidLocals, Spawned, Sound, InHand, None, Ops, Runs

LEMMA KentoInitial == KentoInit => KentoInv
BY Records DEF KentoInit, KentoInv, KentoTypeOK

\* A step of one caller or its child.
LEMMA Moves ==
    ASSUME KentoInv, NEW c \in Callers, NEW m \in CallLocals, NEW k \in KidLocals,
           call' = [call EXCEPT ![c] = m], kid' = [kid EXCEPT ![c] = k],
           Sound(m, k), live' \subseteq Guests,
           late' \subseteq Work
    PROVE  KentoInv'
<1>1. KentoTypeOK'
  BY DEF KentoInv, KentoTypeOK
<1>2. ASSUME NEW d \in Callers PROVE Sound(call'[d], kid'[d])
  <2>1. CASE d = c
    BY <2>1 DEF KentoInv, KentoTypeOK
  <2>2. CASE d # c
    <3>1. call'[d] = call[d] /\ kid'[d] = kid[d]
      BY <2>2 DEF KentoInv, KentoTypeOK
    <3> QED  BY <3>1 DEF KentoInv
  <2> QED  BY <2>1, <2>2
<1> QED  BY <1>1, <1>2 DEF KentoInv, Sound

\* A call that ends in an error, and what is left of its child.
LEMMA Failed ==
    ASSUME NEW m \in CallLocals
    PROVE  LET failed == [m EXCEPT !.at = "answered", !.ans = "err"] IN
           failed \in CallLocals /\ Sound(failed, NoKid)
<1> DEFINE failed == [m EXCEPT !.at = "answered", !.ans = "err"]
<1>1. failed \in CallLocals /\ failed.at = "answered" /\ failed.ans = "err"
  BY DEF CallLocals
<1> HIDE DEF failed
<1>2. Sound(failed, NoKid)
  BY <1>1 DEF Sound, InHand, NoKid, None
<1> QED  BY <1>1, <1>2 DEF failed

LEMMA LooseWork ==
    ASSUME KentoInv, NEW c \in Callers
    PROVE  late \cup Loose(c) \subseteq Work
BY DEF KentoInv, KentoTypeOK, Loose, Sound, Work

-----------------------------------------------------------------------------
\* The caller.

LEMMA BeginStep ==
    ASSUME KentoInv, NEW c \in Callers, NEW a \in Asks[c], Begin(c, a.op, a.arg)
    PROVE  KentoInv'
<1> USE DEF KentoInv, KentoTypeOK
<1> DEFINE opened == [NoCall EXCEPT !.at = "wait", !.op = a.op, !.arg = a.arg]
           refused == [opened EXCEPT !.at = "answered", !.ans = "err"]
<1>1. a \in Asked
  BY AsksAssumption
<1>2. a.op \in Ops /\ a.arg \in Guests \cup {None} /\ (a.op # "list" => a.arg \in Guests)
  BY <1>1 DEF Asked, Ops
<1>3. opened \in CallLocals /\ refused \in CallLocals
  BY <1>2 DEF NoCall, CallLocals
<1>4. FirstRun(a.op) \in Runs /\ (a.op = "list" => FirstRun(a.op) = "list")
      /\ (a.op = "provision" => FirstRun(a.op) = "create")
      /\ (a.op = "teardown" => FirstRun(a.op) = "destroy")
  BY <1>2 DEF FirstRun, Runs, Ops
<1>5. Sound(opened, Spawned(FirstRun(a.op)))
  BY <1>2, <1>4 DEF Sound, InHand, NoCall, Spawned, NoKid, None
<1>6. kid[c] = NoKid /\ kid[c] \in KidLocals
  BY Records DEF Begin, Sound
<1>7. Sound(refused, NoKid)
  BY DEF Sound, InHand, NoCall, NoKid, None
<1>8. \/ call' = [call EXCEPT ![c] = opened] /\ kid' = [kid EXCEPT ![c] = Spawned(FirstRun(a.op))]
      \/ call' = [call EXCEPT ![c] = refused] /\ kid' = kid
  BY DEF Begin
<1>9. live' = live /\ late' = late
  BY DEF Begin
<1> HIDE DEF opened, refused
<1>10. kid' = kid => kid' = [kid EXCEPT ![c] = NoKid]
  BY <1>6
<1> QED  BY <1>3, <1>4, <1>5, <1>7, <1>8, <1>9, <1>10, Records, Moves

\* It gives the call up, or takes the answer.
LEMMA GiveUpStep ==
    ASSUME KentoInv, NEW c \in Callers, Bury(c) \/ WaitFails(c) \/ Return(c) \/ Crash(c)
    PROVE  KentoInv'
<1> USE DEF KentoInv, KentoTypeOK
<1> DEFINE failed == [call[c] EXCEPT !.at = "answered", !.ans = "err"]
<1>1. failed \in CallLocals /\ Sound(failed, NoKid)
  BY Failed
<1>2. /\ kid' = [kid EXCEPT ![c] = NoKid]
      /\ call' = [call EXCEPT ![c] = failed] \/ call' = [call EXCEPT ![c] = NoCall]
      /\ live' = live
      /\ late' = late \/ late' = late \cup Loose(c)
  BY DEF Bury, WaitFails, Return, Crash, Answer
<1> HIDE DEF failed
<1> QED  BY <1>1, <1>2, Records, LooseWork, Moves

LEMMA ReapStep == ASSUME KentoInv, NEW c \in Callers, Reap(c) PROVE KentoInv'
<1> USE DEF KentoInv, KentoTypeOK
<1> DEFINE m == [call[c] EXCEPT !.at = "collect"]
<1>1. m \in CallLocals /\ kid[c] \in KidLocals
  BY DEF CallLocals, KidLocals
<1>2. Sound(m, kid[c])
  BY DEF Sound, InHand, Reap, None
<1>3. call' = [call EXCEPT ![c] = m] /\ kid' = [kid EXCEPT ![c] = kid[c]]
      /\ live' = live /\ late' = late
  BY DEF Reap
<1> HIDE DEF m
<1> QED  BY <1>1, <1>2, <1>3, Moves

\* The child is killed: no more is known of it than that it is there.
LEMMA ExpireStep == ASSUME KentoInv, NEW c \in Callers, Expire(c) PROVE KentoInv'
<1> USE DEF KentoInv, KentoTypeOK
<1> DEFINE m == [call[c] EXCEPT !.at = "expired"]
           k == [kid[c] EXCEPT !.at = "killed"]
<1>1. Sound(call[c], kid[c]) /\ call[c].at = "wait" /\ kid[c].at = "up"
      /\ call[c] \in CallLocals /\ kid[c] \in KidLocals
  BY DEF Expire
<1>2. /\ m \in CallLocals /\ k \in KidLocals
      /\ m.at = "expired" /\ m.op = call[c].op /\ m.arg = call[c].arg
      /\ m.ans = call[c].ans /\ m.got = call[c].got
      /\ k.at = "killed" /\ k.run = kid[c].run /\ k.done = kid[c].done
      /\ k.seen = kid[c].seen /\ k.todo = kid[c].todo /\ k.code = kid[c].code
      /\ k.pipe = kid[c].pipe
  BY <1>1 DEF CallLocals, KidLocals
<1>3. call' = [call EXCEPT ![c] = m] /\ kid' = [kid EXCEPT ![c] = k]
      /\ live' = live /\ late' = late
  BY DEF Expire
<1> HIDE DEF m, k
<1>4. Sound(m, k)
  BY <1>1, <1>2 DEF Sound, InHand, None
<1> QED  BY <1>2, <1>3, <1>4, Moves

LEMMA DrainStep == ASSUME KentoInv, NEW c \in Callers, Drain(c) PROVE KentoInv'
<1> USE DEF KentoInv, KentoTypeOK
<1> DEFINE m == [call[c] EXCEPT !.got = @ \cup kid[c].pipe]
           k == [kid[c] EXCEPT !.pipe = {}]
<1>1. Sound(call[c], kid[c]) /\ call[c].at = "collect"
      /\ call[c] \in CallLocals /\ kid[c] \in KidLocals
  BY DEF Drain
<1>2. /\ m \in CallLocals /\ k \in KidLocals
      /\ m.at = call[c].at /\ m.op = call[c].op /\ m.arg = call[c].arg
      /\ m.ans = call[c].ans /\ m.got = call[c].got \cup kid[c].pipe
      /\ k.at = kid[c].at /\ k.run = kid[c].run /\ k.done = kid[c].done
      /\ k.seen = kid[c].seen /\ k.todo = kid[c].todo /\ k.code = kid[c].code
      /\ k.pipe = {}
  BY <1>1 DEF CallLocals, KidLocals
<1>3. call' = [call EXCEPT ![c] = m] /\ kid' = [kid EXCEPT ![c] = k]
      /\ live' = live /\ late' = late
  BY DEF Drain
<1> HIDE DEF m, k
<1>4. Sound(m, k)
  BY <1>1, <1>2 DEF Sound, InHand, None
<1> QED  BY <1>2, <1>3, <1>4, Moves

LEMMA InspectStep == ASSUME KentoInv, NEW c \in Callers, Inspect(c) PROVE KentoInv'
<1> USE DEF KentoInv, KentoTypeOK
<1> DEFINE m == [call[c] EXCEPT !.at = "wait", !.got = {}]
           failed == [call[c] EXCEPT !.at = "answered", !.ans = "err"]
<1>1. /\ m \in CallLocals /\ failed \in CallLocals /\ Sound(failed, NoKid)
      /\ Spawned("inspect") \in KidLocals
  BY Records, Failed DEF CallLocals, Runs
<1>2. Sound(m, Spawned("inspect"))
  <2>1. Sound(call[c], kid[c]) /\ call[c].at = "collect" /\ kid[c].run = "create"
    BY DEF Inspect, AtEnd, GoesOn
  <2> QED  BY <2>1 DEF Sound, InHand, Spawned, NoKid, None
<1>3. /\ \/ call' = [call EXCEPT ![c] = m] /\ kid' = [kid EXCEPT ![c] = Spawned("inspect")]
         \/ call' = [call EXCEPT ![c] = failed] /\ kid' = [kid EXCEPT ![c] = NoKid]
      /\ live' = live /\ late' = late
  BY DEF Inspect, Answer
<1> HIDE DEF m, failed
<1> QED  BY <1>1, <1>2, <1>3, Records, Moves

\* The answer: "ok" only with the status "ok", all of the output read, and of a
\* provision only behind its inspect.
LEMMA FinishStep == ASSUME KentoInv, NEW c \in Callers, Finish(c) PROVE KentoInv'
<1> USE DEF KentoInv, KentoTypeOK
<1> DEFINE verdict == Verdict(kid[c].code)
           m == [call[c] EXCEPT !.at = "answered", !.ans = verdict]
           k == IF verdict = "ok" THEN kid[c] ELSE NoKid
           failed == [call[c] EXCEPT !.at = "answered", !.ans = "err"]
<1>1. Sound(call[c], kid[c]) /\ call[c].at = "collect" /\ kid[c].pipe = {}
      /\ call[c] \in CallLocals /\ kid[c] \in KidLocals
  BY DEF Finish, AtEnd, CallLocals, KidLocals
<1>2. verdict \in {"ok", "err", "quorum"} /\ (verdict = "ok" <=> kid[c].code = "ok")
  BY DEF Verdict
<1>3. verdict = "ok" => kid[c].run # "create"
  BY DEF Finish, GoesOn
<1>4. /\ \/ call' = [call EXCEPT ![c] = m] /\ kid' = [kid EXCEPT ![c] = k]
         \/ call' = [call EXCEPT ![c] = failed] /\ kid' = [kid EXCEPT ![c] = NoKid]
      /\ live' = live /\ late' = late \cup Loose(c)
  BY DEF Finish, Answer
<1> HIDE DEF verdict
<1>5. m \in CallLocals /\ k \in KidLocals
  BY <1>1, <1>2, Records DEF CallLocals
<1>6. Sound(m, k)
  BY <1>1, <1>2, <1>3 DEF Sound, InHand, NoKid, None
<1>7. failed \in CallLocals /\ Sound(failed, NoKid)
  BY <1>1, Failed
<1> HIDE DEF m, k, failed
<1> QED  BY <1>4, <1>5, <1>6, <1>7, Records, LooseWork, Moves

-----------------------------------------------------------------------------
\* The child.

LEMMA KidLemma == ASSUME KentoInv, NEW c \in Callers, KidStep(c) PROVE KentoInv'
<1> USE DEF KentoInv, KentoTypeOK
<1>1. /\ Sound(call[c], kid[c]) /\ call[c] \in CallLocals /\ kid[c] \in KidLocals
      /\ call[c].ans \notin {"err", "quorum"}
  <2>1. kid[c].at \in {"up", "killed"} \/ kid[c].heir # None
    BY DEF KidStep, KidActs, KidLooks, KidPrints, KidForks, HeirEnds, KidExits, KidDies, Lives
  <2>2. kid[c] # NoKid
    BY <2>1 DEF NoKid
  <2> QED  BY <2>2 DEF Sound, InHand
\* A step that leaves all but the child's record as it is.
<1>2. ASSUME NEW k \in KidLocals, kid' = [kid EXCEPT ![c] = k], call' = call, late' = late,
             live' \subseteq Guests, Sound(call[c], k)
      PROVE  KentoInv'
  <2>1. call' = [call EXCEPT ![c] = call[c]]
    BY <1>2
  <2> QED  BY <1>1, <1>2, <2>1, Moves
<1>3. CASE KidActs(c)
  <2> DEFINE k == [kid[c] EXCEPT !.done = TRUE]
  <2>1. /\ k \in KidLocals /\ k.done
        /\ k.at = kid[c].at /\ k.run = kid[c].run /\ k.seen = kid[c].seen
        /\ k.todo = kid[c].todo /\ k.pipe = kid[c].pipe /\ k.code = kid[c].code
    BY <1>1 DEF KidLocals
  <2>2. kid' = [kid EXCEPT ![c] = k] /\ call' = call /\ late' = late
    BY <1>3 DEF KidActs
  <2>3. call[c].at # "idle"
    BY <1>1, <1>3 DEF KidActs, Lives, Sound, InHand, NoKid, None
  <2>4. live' \subseteq Guests
    BY <1>1, <1>3 DEF KidActs, Effect, Sound
  <2> HIDE DEF k
  <2>5. Sound(call[c], k)
    BY <1>1, <2>1, <2>3 DEF Sound, InHand
  <2> QED  BY <1>2, <2>1, <2>2, <2>4, <2>5
<1>4. CASE KidLooks(c)
  <2> DEFINE found == IF kid[c].run = "list" THEN live ELSE live \cap {call[c].arg}
             k == [kid[c] EXCEPT !.done = TRUE, !.seen = found, !.todo = found]
  <2>1. /\ k \in KidLocals /\ k.done /\ k.seen = found /\ k.todo = found
        /\ k.at = kid[c].at /\ k.run = kid[c].run
        /\ k.pipe = kid[c].pipe /\ k.code = kid[c].code
    BY <1>1 DEF KidLocals
  <2>2. kid' = [kid EXCEPT ![c] = k] /\ call' = call /\ late' = late /\ live' = live
    BY <1>4 DEF KidLooks
  <2>3. kid[c].at = "up" /\ kid[c].code # "ok" /\ ~kid[c].done
    BY <1>1, <1>4 DEF KidLooks, Sound
  <2>4. call[c].at # "idle" /\ call[c].ans # "ok"
    BY <1>1, <2>3 DEF Sound, InHand, NoKid
  <2>5. call[c].op = "list" /\ call[c].ans = None => call[c].got = {} /\ kid[c].pipe = {}
    BY <1>1, <2>3 DEF Sound, InHand
  <2> HIDE DEF k, found
  <2>6. Sound(call[c], k)
    BY <1>1, <2>1, <2>3, <2>4, <2>5 DEF Sound, InHand
  <2> QED  BY <1>2, <2>1, <2>2, <2>6
<1>5. CASE KidPrints(c)
  <2>1. PICK u \in kid[c].todo :
          kid' = [kid EXCEPT ![c].todo = @ \ {u}, ![c].pipe = @ \cup {u}]
    BY <1>5 DEF KidPrints
  <2> DEFINE k == [kid[c] EXCEPT !.todo = kid[c].todo \ {u}, !.pipe = kid[c].pipe \cup {u}]
  <2>2. /\ k \in KidLocals
        /\ k.todo = kid[c].todo \ {u} /\ k.pipe = kid[c].pipe \cup {u}
        /\ k.at = kid[c].at /\ k.run = kid[c].run /\ k.done = kid[c].done
        /\ k.seen = kid[c].seen /\ k.code = kid[c].code
    BY <1>1, <2>1 DEF KidLocals
  <2>3. kid[c].at = "up" /\ kid[c].code # "ok" /\ call' = call /\ late' = late /\ live' = live
    BY <1>1, <1>5 DEF KidPrints, Sound
  <2>4. call[c].at # "idle" /\ call[c].ans # "ok"
    BY <1>1, <2>3 DEF Sound, InHand, NoKid
  <2>5. kid' = [kid EXCEPT ![c] = k]
    BY <2>1
  <2> HIDE DEF k
  <2>6. Sound(call[c], k)
    BY <1>1, <2>2, <2>3, <2>4 DEF Sound, InHand
  <2> QED  BY <1>2, <2>2, <2>3, <2>5, <2>6
<1>6. CASE KidForks(c) \/ HeirEnds(c)
  <2>1. PICK heir \in {None, "holding", "detached"} :
          kid' = [kid EXCEPT ![c] = [kid[c] EXCEPT !.heir = heir]]
    BY <1>6 DEF KidForks, HeirEnds
  <2> DEFINE k == [kid[c] EXCEPT !.heir = heir]
  <2>2. /\ k \in KidLocals
        /\ k.at = kid[c].at /\ k.run = kid[c].run /\ k.done = kid[c].done
        /\ k.seen = kid[c].seen /\ k.todo = kid[c].todo /\ k.pipe = kid[c].pipe
        /\ k.code = kid[c].code
    BY <1>1 DEF KidLocals
  <2>3. call[c].at # "idle" /\ call' = call /\ late' = late /\ live' = live
    BY <1>1, <1>6 DEF KidForks, HeirEnds, Sound, InHand, NoKid
  <2>4. kid' = [kid EXCEPT ![c] = k]
    BY <2>1
  <2> HIDE DEF k
  <2>5. Sound(call[c], k)
    BY <1>1, <2>2, <2>3 DEF Sound, InHand
  <2> QED  BY <1>2, <2>2, <2>3, <2>4, <2>5
<1>7. CASE KidExits(c)
  <2>1. PICK code \in {"ok", "failed", "quorum"} :
          /\ code = "ok" => kid[c].done /\ kid[c].todo = {}
          /\ kid' = [kid EXCEPT ![c] = [kid[c] EXCEPT !.at = "exited", !.code = code]]
    BY <1>7, ZenonT(40) DEF KidExits
  <2> DEFINE k == [kid[c] EXCEPT !.at = "exited", !.code = code]
  <2>2. /\ k \in KidLocals /\ k.at = "exited" /\ k.code = code
        /\ k.run = kid[c].run /\ k.done = kid[c].done
        /\ k.seen = kid[c].seen /\ k.todo = kid[c].todo /\ k.pipe = kid[c].pipe
    BY <1>1 DEF KidLocals
  <2>3. kid[c].at = "up" /\ kid[c].code # "ok" /\ call' = call /\ late' = late /\ live' = live
    BY <1>1, <1>7 DEF KidExits, Sound
  <2>4. call[c].at # "idle" /\ call[c].ans # "ok"
    BY <1>1, <2>3 DEF Sound, InHand, NoKid
  <2>5. kid' = [kid EXCEPT ![c] = k]
    BY <2>1
  <2> HIDE DEF k
  <2>6. Sound(call[c], k)
    BY <1>1, <2>1, <2>2, <2>3, <2>4 DEF Sound, InHand
  <2> QED  BY <1>2, <2>2, <2>3, <2>5, <2>6
<1>8. CASE KidDies(c)
  <2> DEFINE k == [kid[c] EXCEPT !.at = "dead"]
  <2>1. /\ k \in KidLocals /\ k.at = "dead" /\ k.code = kid[c].code
        /\ k.run = kid[c].run /\ k.done = kid[c].done
        /\ k.seen = kid[c].seen /\ k.todo = kid[c].todo /\ k.pipe = kid[c].pipe
    BY <1>1 DEF KidLocals
  <2>2. kid[c].at = "killed" /\ kid[c].code # "ok" /\ call' = call /\ late' = late /\ live' = live
    BY <1>1, <1>8 DEF KidDies, Sound
  <2>3. call[c].at \notin {"idle", "collect"} /\ call[c].ans # "ok"
    BY <1>1, <2>2 DEF Sound, InHand, NoKid
  <2>4. kid' = [kid EXCEPT ![c] = k]
    BY <1>8 DEF KidDies
  <2> HIDE DEF k
  <2>5. Sound(call[c], k)
    BY <1>1, <2>1, <2>2, <2>3 DEF Sound, InHand
  <2> QED  BY <1>2, <2>1, <2>2, <2>4, <2>5
<1> QED  BY <1>3, <1>4, <1>5, <1>6, <1>7, <1>8 DEF KidStep

LEMMA LateStep == ASSUME KentoInv, LateWork PROVE KentoInv'
<1> USE DEF KentoInv, KentoTypeOK
<1>1. UNCHANGED <<call, kid>> /\ live' \subseteq Guests
      /\ late' \subseteq Work
  BY DEF LateWork, Effect, Work
<1> QED  BY <1>1

-----------------------------------------------------------------------------

\* The invariant holds of every behaviour.
THEOREM KentoInvariant == KentoSpec => []KentoInv
<1>1. KentoInv /\ [KentoNext]_kentoVars => KentoInv'
  <2>1. KentoInv /\ UNCHANGED kentoVars => KentoInv'
    BY DEF kentoVars, KentoInv, KentoTypeOK
  <2> QED
    BY <2>1, BeginStep, GiveUpStep, ReapStep, ExpireStep, DrainStep, InspectStep, FinishStep, KidLemma,
       LateStep
    DEF KentoNext, CallerStep
<1> QED  BY <1>1, KentoInitial, PTL DEF KentoSpec

\* The types of all variables.
THEOREM KentoTypes == KentoSpec => []KentoTypeOK
<1>1. KentoInv => KentoTypeOK  BY DEF KentoInv
<1> QED  BY <1>1, KentoInvariant, PTL

\* A call answered "ok" is true: a list is complete, a provision and a teardown
\* were done.
THEOREM AnswersAreTrue == KentoSpec => []OkIsTrue
<1>1. ASSUME KentoInv PROVE OkIsTrue
  <2> SUFFICES ASSUME NEW c \in Callers, call[c].ans = "ok"
               PROVE  /\ kid[c].done
                      /\ call[c].op = "list" => call[c].got = kid[c].seen
                      /\ call[c].op = "provision" => kid[c].run = "inspect"
    BY DEF OkIsTrue
  <2> DEFINE m == call[c]
             k == kid[c]
  <2>1. Sound(m, k) /\ m.ans = "ok"
    BY <1>1 DEF KentoInv
  <2> HIDE DEF m, k
  <2>2. k.done /\ k.todo = {} /\ k.pipe = {} /\ (m.op = "provision" => k.run = "inspect")
    BY <2>1 DEF Sound
  <2>3. m.op = "list" => m.got = k.seen
    BY <2>1, <2>2 DEF Sound
  <2> QED  BY <2>2, <2>3 DEF m, k
<1> QED  BY <1>1, KentoInvariant, PTL

-----------------------------------------------------------------------------
(***************************************************************************)
(* The refinement.  A call and its child are one call of the bridge        *)
(* (Pending); a step of either is that call taking its effect, being       *)
(* answered or given up, or nothing the caller could tell.                 *)
(***************************************************************************)

\* What a step of one caller or its child does to the calls of the bridge.
LEMMA PendMoves ==
    ASSUME KentoInv, NEW c \in Callers, NEW m, NEW k,
           call' = [call EXCEPT ![c] = m], kid' = [kid EXCEPT ![c] = k]
    PROVE  /\ BridgePend' = [BridgePend EXCEPT ![c] = Pending(m, k)]
           /\ BridgePend[c] = Pending(call[c], kid[c])
<1>1. \A d \in Callers : Pending(call'[d], kid'[d])
                         = IF d = c THEN Pending(m, k) ELSE Pending(call[d], kid[d])
  BY DEF KentoInv, KentoTypeOK
<1> QED  BY <1>1 DEF BridgePend

\* A step that changes nothing the bridge speaks of.
LEMMA Unseen ==
    ASSUME KentoInv, NEW c \in Callers, NEW m, NEW k,
           call' = [call EXCEPT ![c] = m], kid' = [kid EXCEPT ![c] = k],
           Pending(m, k) = Pending(call[c], kid[c]), live' = live, late' = late
    PROVE  UNCHANGED <<live, BridgePend, BridgeLate>>
<1>1. BridgePend' = [BridgePend EXCEPT ![c] = Pending(m, k)]
      /\ BridgePend[c] = Pending(call[c], kid[c])
  BY PendMoves
<1>2. BridgePend' = [BridgePend EXCEPT ![c] = BridgePend[c]]
  BY <1>1
<1>3. BridgePend' = BridgePend
  BY <1>2 DEF BridgePend
<1>4. BridgeLate' = BridgeLate
  BY DEF BridgeLate
<1> QED  BY <1>3, <1>4

\* The calls of the bridge, stage by stage.
LEMMA Stages ==
    ASSUME KentoInv, NEW c \in Callers
    PROVE  /\ call[c].at \in {"idle", "wait", "expired", "collect", "answered"}
           /\ call[c].at = "idle" => BridgePend[c] = BridgeHere!Quiet
           /\ call[c].at = "answered" => BridgePend[c].at = "answered"
           /\ call[c].at \in InHand =>
                 /\ BridgePend[c].at
                    = IF kid[c].done \/ kid[c].run = "inspect" THEN "done" ELSE "open"
                 /\ BridgePend[c].op = call[c].op /\ BridgePend[c].arg = call[c].arg
                 /\ call[c].ans = None
                 /\ kid[c].run = "list" <=> call[c].op = "list"
                 /\ kid[c].run \in {"create", "inspect"} <=> call[c].op = "provision"
                 /\ kid[c].run = "destroy" <=> call[c].op = "teardown"
<1> DEFINE m == call[c]
           k == kid[c]
<1>1. /\ Sound(m, k) /\ m \in CallLocals /\ k \in KidLocals
      /\ BridgePend[c] = Pending(m, k)
  BY DEF KentoInv, KentoTypeOK, BridgePend
<1>2. m.at \in {"idle", "wait", "expired", "collect", "answered"}
  BY <1>1 DEF CallLocals
<1>3. ASSUME m.at = "idle" PROVE Pending(m, k) = BridgeHere!Quiet
  BY <1>1, <1>3 DEF Pending, Stage, BridgeHere!Quiet, BridgeHere!None, NoCall, None, Sound
<1> QED  BY <1>1, <1>2, <1>3 DEF Pending, Stage, Sound, InHand, Ops, None

\* What a call given up may still do is what its child may.
LEMMA GivenUp ==
    ASSUME KentoInv, NEW c \in Callers, call[c].at # "idle",
           late' = late \cup Loose(c)
    PROVE  /\ BridgeLate' \in {BridgeLate, BridgeLate \cup BridgeHere!Loose(c)}
           /\ call[c].ans = "ok" \/ kid[c].code = "ok" => BridgeLate' = BridgeLate
<1> DEFINE w == [run |-> kid[c].run, arg |-> call[c].arg]
<1>1. Sound(call[c], kid[c]) /\ BridgePend[c] = Pending(call[c], kid[c])
  BY DEF KentoInv, BridgePend
<1>2. CASE Loose(c) = {}
  BY <1>2 DEF BridgeLate
<1>3. CASE Loose(c) # {}
  <2>1. /\ kid[c].run \in {"create", "destroy"} /\ ~kid[c].done
        /\ Loose(c) = {w}
    BY <1>3 DEF Loose
  <2>2. call[c].ans # "ok" /\ kid[c].code # "ok" /\ kid[c] # NoKid
    BY <1>1, <2>1 DEF Sound, NoKid, None
  <2>3. call[c].at \in InHand
    BY <1>1, <2>2, Stages DEF Sound, InHand, KentoInv, KentoTypeOK, CallLocals, None
  <2>4. /\ BridgePend[c].at = "open" /\ BridgePend[c].op = call[c].op
        /\ BridgePend[c].arg = call[c].arg
        /\ kid[c].run = "create" => call[c].op = "provision"
        /\ kid[c].run = "destroy" => call[c].op = "teardown"
    BY <1>1, <2>1, <2>3, Stages
  <2>5. Outlasting(w) = [op |-> call[c].op, arg |-> call[c].arg]
    BY <2>1, <2>4 DEF Outlasting
  <2>6. BridgeHere!Loose(c) = {Outlasting(w)}
    BY <2>1, <2>4, <2>5 DEF BridgeHere!Loose
  <2>7. BridgeLate' = BridgeLate \cup {Outlasting(w)}
    BY <2>1 DEF BridgeLate
  <2> QED  BY <2>2, <2>6, <2>7
<1> QED  BY <1>2, <1>3

\* The records that the bridge starts a call and answers an error with.
LEMMA QuietFields ==
    ASSUME NEW Any, NEW op \in Any, NEW arg \in Any, NEW ans \in Any
    PROVE  /\ [BridgeHere!Quiet EXCEPT !.at = "answered", !.ans = ans]
              = [at |-> "answered", op |-> None, arg |-> None, seen |-> {}, ans |-> ans]
           /\ [BridgeHere!Quiet EXCEPT !.at = "open", !.op = op, !.arg = arg]
              = [at |-> "open", op |-> op, arg |-> arg, seen |-> {}, ans |-> None]
<1> DEFINE R == [at : {"idle", "open", "answered"}, op : Any \cup {None}, arg : Any \cup {None},
                 seen : {{}}, ans : Any \cup {None}]
           answer == [BridgeHere!Quiet EXCEPT !.at = "answered", !.ans = ans]
           answerIs == [at |-> "answered", op |-> None, arg |-> None, seen |-> {}, ans |-> ans]
           opening == [BridgeHere!Quiet EXCEPT !.at = "open", !.op = op, !.arg = arg]
           openingIs == [at |-> "open", op |-> op, arg |-> arg, seen |-> {}, ans |-> None]
<1>1. BridgeHere!Quiet \in R
      /\ BridgeHere!Quiet.op = None /\ BridgeHere!Quiet.arg = None /\ BridgeHere!Quiet.ans = None
  BY DEF BridgeHere!Quiet, BridgeHere!None, None
<1>2. answer \in R /\ answer.at = "answered" /\ answer.op = None /\ answer.arg = None
      /\ answer.ans = ans
  BY <1>1
<1>3. answerIs \in R /\ answerIs.at = "answered" /\ answerIs.op = None /\ answerIs.arg = None
      /\ answerIs.ans = ans
  OBVIOUS
<1>4. opening \in R /\ opening.at = "open" /\ opening.op = op /\ opening.arg = arg
      /\ opening.ans = None
  BY <1>1
<1>5. openingIs \in R /\ openingIs.at = "open" /\ openingIs.op = op /\ openingIs.arg = arg
      /\ openingIs.ans = None
  OBVIOUS
<1> HIDE DEF answer, answerIs, opening, openingIs
<1>6. answer = answerIs /\ opening = openingIs
  BY <1>2, <1>3, <1>4, <1>5
<1> QED  BY <1>6 DEF answer, answerIs, opening, openingIs

\* A call that fails is answered as the bridge answers it.
LEMMA Fails ==
    ASSUME KentoInv, NEW c \in Callers, NEW ans \in {"err", "quorum"},
           call[c].at \in InHand,
           call' = Answer(c, ans), kid' = [kid EXCEPT ![c] = NoKid], live' = live,
           BridgeLate' \in {BridgeLate, BridgeLate \cup BridgeHere!Loose(c)}
    PROVE  BridgeHere!AnswerError(c)
<1> DEFINE m == [call[c] EXCEPT !.at = "answered", !.ans = ans]
<1>1. call' = [call EXCEPT ![c] = m] /\ m.at = "answered" /\ m.ans = ans
  BY DEF Answer, KentoInv, KentoTypeOK, CallLocals
<1> HIDE DEF m
<1>2. BridgePend' = [BridgePend EXCEPT ![c] = Pending(m, NoKid)]
      /\ BridgePend[c] = Pending(call[c], kid[c])
  BY <1>1, PendMoves
<1>3. Pending(m, NoKid) = [at |-> "answered", op |-> None, arg |-> None, seen |-> {}, ans |-> ans]
  <2>1. Stage(m, NoKid) = "answered"
    BY <1>1 DEF Stage
  <2> QED  BY <1>1, <2>1 DEF Pending
<1>4. [BridgeHere!Quiet EXCEPT !.at = "answered", !.ans = ans]
      = [at |-> "answered", op |-> None, arg |-> None, seen |-> {}, ans |-> ans]
  BY QuietFields
<1>5. BridgePend[c].at \in {"open", "done"}
  BY Stages DEF InHand
<1>6. ans \in BridgeHere!Answers \ {"ok"}
  BY DEF BridgeHere!Answers
<1> QED  BY <1>2, <1>3, <1>4, <1>5, <1>6 DEF BridgeHere!AnswerError

-----------------------------------------------------------------------------
\* The steps of a caller, as the bridge sees them.

LEMMA BeginMaps ==
    ASSUME KentoInv, NEW c \in Callers, NEW a \in Asks[c], Begin(c, a.op, a.arg)
    PROVE  BridgeHere!Invoke(c, a.op, a.arg) \/ BridgeHere!Refuse(c)
<1> DEFINE opened == [NoCall EXCEPT !.at = "wait", !.op = a.op, !.arg = a.arg]
           refused == [opened EXCEPT !.at = "answered", !.ans = "err"]
           k == Spawned(FirstRun(a.op))
<1>1. a \in Asked
  BY AsksAssumption
<1>2. /\ a.op \in Ops /\ a.arg \in Guests \cup {None}
      /\ IF a.op = "list" THEN a.arg = None ELSE a.arg \in Guests
  BY <1>1 DEF Asked, Ops
<1>3. /\ opened.at = "wait" /\ opened.op = a.op /\ opened.arg = a.arg /\ opened.ans = None
      /\ refused.at = "answered" /\ refused.ans = "err"
  BY <1>2 DEF NoCall, Ops
<1>4. ~k.done /\ k.run # "inspect" /\ k.seen = {}
  BY <1>2 DEF Spawned, NoKid, FirstRun, Ops
<1>5. /\ BridgePend[c].at = "idle" /\ kid = [kid EXCEPT ![c] = NoKid]
      /\ live' = live /\ BridgeLate' = BridgeLate
  BY Stages DEF Begin, KentoInv, KentoTypeOK, Sound, BridgeHere!Quiet, BridgeLate
<1>6. \/ call' = [call EXCEPT ![c] = opened] /\ kid' = [kid EXCEPT ![c] = k]
      \/ call' = [call EXCEPT ![c] = refused] /\ kid' = kid
  BY DEF Begin
<1> HIDE DEF opened, refused, k
<1>7. CASE call' = [call EXCEPT ![c] = opened] /\ kid' = [kid EXCEPT ![c] = k]
  <2>1. BridgePend' = [BridgePend EXCEPT ![c] = Pending(opened, k)]
    BY <1>7, PendMoves
  <2>2. Stage(opened, k) = "open"
    BY <1>3, <1>4 DEF Stage
  <2>3. Pending(opened, k)
        = [at |-> "open", op |-> a.op, arg |-> a.arg, seen |-> {}, ans |-> None]
    BY <1>3, <1>4, <2>2 DEF Pending, None
  <2>4. Pending(opened, k)
        = [BridgeHere!Quiet EXCEPT !.at = "open", !.op = a.op, !.arg = a.arg]
    BY <2>3, QuietFields, a.op \in {a.op, a.arg}, a.arg \in {a.op, a.arg}
  <2> QED  BY <1>2, <1>5, <2>1, <2>4 DEF BridgeHere!Invoke, BridgeHere!None, None
<1>8. CASE call' = [call EXCEPT ![c] = refused] /\ kid' = kid
  <2>1. call' = [call EXCEPT ![c] = refused] /\ kid' = [kid EXCEPT ![c] = NoKid]
    BY <1>5, <1>8
  <2>2. BridgePend' = [BridgePend EXCEPT ![c] = Pending(refused, NoKid)]
    BY <2>1, PendMoves
  <2>3. Stage(refused, NoKid) = "answered"
    BY <1>3 DEF Stage
  <2>4. Pending(refused, NoKid)
        = [at |-> "answered", op |-> None, arg |-> None, seen |-> {}, ans |-> "err"]
    BY <1>3, <2>3 DEF Pending
  <2>5. Pending(refused, NoKid) = [BridgeHere!Quiet EXCEPT !.at = "answered", !.ans = "err"]
    BY <2>4, QuietFields, "err" \in {"err"}
  <2> QED  BY <1>5, <2>2, <2>5 DEF BridgeHere!Refuse
<1> QED  BY <1>6, <1>7, <1>8

LEMMA GiveUpMaps ==
    ASSUME KentoInv, NEW c \in Callers, Bury(c) \/ WaitFails(c)
    PROVE  BridgeHere!AnswerError(c)
<1>1. /\ call[c].at \in InHand /\ call[c].at # "idle"
      /\ call' = Answer(c, "err") /\ kid' = [kid EXCEPT ![c] = NoKid]
      /\ live' = live /\ late' = late \cup Loose(c)
  BY DEF Bury, WaitFails, InHand
<1>2. BridgeLate' \in {BridgeLate, BridgeLate \cup BridgeHere!Loose(c)}
  BY <1>1, GivenUp
<1> QED  BY <1>1, <1>2, Fails

LEMMA ReturnMaps ==
    ASSUME KentoInv, NEW c \in Callers, Return(c) \/ Crash(c)
    PROVE  BridgeHere!Return(c) \/ BridgeHere!Crash(c)
<1>1. call' = [call EXCEPT ![c] = NoCall] /\ kid' = [kid EXCEPT ![c] = NoKid] /\ live' = live
  BY DEF Return, Crash
<1>2. BridgePend' = [BridgePend EXCEPT ![c] = Pending(NoCall, NoKid)]
  BY <1>1, PendMoves
<1>3. Pending(NoCall, NoKid) = BridgeHere!Quiet
  BY DEF Pending, Stage, NoCall, NoKid, BridgeHere!Quiet, BridgeHere!None, None
<1>4. CASE Return(c)
  BY <1>1, <1>2, <1>3, <1>4, Stages DEF Return, BridgeHere!Return, BridgeLate
<1>5. CASE Crash(c)
  <2>1. BridgeLate' \in {BridgeLate, BridgeLate \cup BridgeHere!Loose(c)}
    BY <1>5, GivenUp DEF Crash
  <2>2. BridgePend[c].at # "idle"
    BY <1>5, Stages DEF Crash, InHand
  <2> QED  BY <1>1, <1>2, <1>3, <2>1, <2>2 DEF BridgeHere!Crash
<1> QED  BY <1>4, <1>5

\* A call of the bridge that is answered "ok".
LEMMA AnsweredFields ==
    ASSUME NEW Any, NEW op \in Any, NEW arg \in Any, NEW seen \in Any
    PROVE  [[at |-> "done", op |-> op, arg |-> arg, seen |-> seen, ans |-> None]
              EXCEPT !.at = "answered", !.ans = "ok"]
           = [at |-> "answered", op |-> op, arg |-> arg, seen |-> seen, ans |-> "ok"]
<1> DEFINE R == [at : {"done", "answered"}, op : Any, arg : Any, seen : Any, ans : {None, "ok"}]
           done == [at |-> "done", op |-> op, arg |-> arg, seen |-> seen, ans |-> None]
           answered == [done EXCEPT !.at = "answered", !.ans = "ok"]
           answeredIs == [at |-> "answered", op |-> op, arg |-> arg, seen |-> seen, ans |-> "ok"]
<1>1. done \in R /\ done.op = op /\ done.arg = arg /\ done.seen = seen
  BY DEF None
<1> HIDE DEF done
<1>2. answered \in R /\ answered.at = "answered" /\ answered.op = op /\ answered.arg = arg
      /\ answered.seen = seen /\ answered.ans = "ok"
  BY <1>1
<1>3. answeredIs \in R /\ answeredIs.at = "answered" /\ answeredIs.op = op
      /\ answeredIs.arg = arg /\ answeredIs.seen = seen /\ answeredIs.ans = "ok"
  OBVIOUS
<1> HIDE DEF answered, answeredIs
<1>4. answered = answeredIs
  BY <1>2, <1>3
<1> QED  BY <1>4 DEF answered, answeredIs, done

\* A list that takes its effect.
LEMMA ListedFields ==
    ASSUME NEW Any, NEW arg \in Any, NEW seen \in Any
    PROVE  [[at |-> "open", op |-> "list", arg |-> arg, seen |-> {}, ans |-> None]
              EXCEPT !.at = "done", !.seen = seen]
           = [at |-> "done", op |-> "list", arg |-> arg, seen |-> seen, ans |-> None]
<1> DEFINE R == [at : {"open", "done"}, op : {"list"}, arg : Any, seen : Any \cup {{}}, ans : {None}]
           open == [at |-> "open", op |-> "list", arg |-> arg, seen |-> {}, ans |-> None]
           listed == [open EXCEPT !.at = "done", !.seen = seen]
           listedIs == [at |-> "done", op |-> "list", arg |-> arg, seen |-> seen, ans |-> None]
<1>1. open \in R /\ open.arg = arg
  OBVIOUS
<1> HIDE DEF open
<1>2. listed \in R /\ listed.at = "done" /\ listed.arg = arg /\ listed.seen = seen
  BY <1>1
<1>3. listedIs \in R /\ listedIs.at = "done" /\ listedIs.arg = arg /\ listedIs.seen = seen
  OBVIOUS
<1> HIDE DEF listed, listedIs
<1>4. listed = listedIs
  BY <1>2, <1>3
<1> QED  BY <1>4 DEF listed, listedIs, open

LEMMA FinishMaps ==
    ASSUME KentoInv, NEW c \in Callers, Finish(c)
    PROVE  BridgeHere!AnswerOk(c) \/ BridgeHere!AnswerError(c)
<1> DEFINE verdict == Verdict(kid[c].code)
<1>1. /\ call[c].at = "collect" /\ kid[c].at = "exited"
      /\ kid[c].run # "create" \/ verdict # "ok"
      /\ Sound(call[c], kid[c]) /\ call[c] \in CallLocals
  BY DEF Finish, AtEnd, GoesOn, KentoInv, KentoTypeOK, Sound
<1>2. verdict \in {"ok", "err", "quorum"} /\ (verdict = "ok" <=> kid[c].code = "ok")
  BY DEF Verdict
<1>3. /\ BridgeLate' \in {BridgeLate, BridgeLate \cup BridgeHere!Loose(c)}
      /\ kid[c].code = "ok" => BridgeLate' = BridgeLate
  BY <1>1, GivenUp DEF Finish
<1>4. /\ live' = live
      /\ \/ /\ call' = Answer(c, verdict)
            /\ kid' = IF verdict = "ok" THEN kid ELSE [kid EXCEPT ![c] = NoKid]
         \/ call' = Answer(c, "err") /\ kid' = [kid EXCEPT ![c] = NoKid]
  BY DEF Finish
<1>5. call[c].at \in InHand
  BY <1>1 DEF InHand
<1> HIDE DEF verdict
<1>6. CASE /\ call' = Answer(c, verdict) /\ verdict # "ok"
           /\ kid' = [kid EXCEPT ![c] = NoKid]
  BY <1>1, <1>2, <1>3, <1>4, <1>5, <1>6, Fails
<1>7. CASE call' = Answer(c, "err") /\ kid' = [kid EXCEPT ![c] = NoKid]
  BY <1>3, <1>4, <1>5, <1>7, Fails
<1>8. CASE verdict = "ok" /\ call' = Answer(c, verdict) /\ kid' = kid
  <2> DEFINE m == [call[c] EXCEPT !.at = "answered", !.ans = "ok"]
  <2>1. /\ call' = [call EXCEPT ![c] = m] /\ m.at = "answered" /\ m.ans = "ok"
        /\ m.op = call[c].op /\ m.arg = call[c].arg
    BY <1>1, <1>8 DEF Answer, CallLocals
  <2>2. kid' = [kid EXCEPT ![c] = kid[c]]
    BY <1>8 DEF KentoInv, KentoTypeOK
  <2> HIDE DEF m
  <2>3. BridgePend' = [BridgePend EXCEPT ![c] = Pending(m, kid[c])]
        /\ BridgePend[c] = Pending(call[c], kid[c])
    BY <2>1, <2>2, PendMoves
  <2>4. BridgePend[c].at = "done"
    BY <1>1, <1>2, <1>5, <1>8, Stages DEF Sound
  <2>5. /\ Stage(m, kid[c]) = "answered" /\ Stage(call[c], kid[c]) = "done"
        /\ call[c].ans = None
    BY <1>1, <1>2, <1>8, <2>1 DEF Stage, Sound, InHand
  <2>6. Pending(m, kid[c]) = [Pending(call[c], kid[c]) EXCEPT !.at = "answered", !.ans = "ok"]
    <3> DEFINE op == call[c].op
               arg == call[c].arg
               seen == IF op = "list" THEN kid[c].seen ELSE {}
    <3>1. Pending(m, kid[c])
          = [at |-> "answered", op |-> op, arg |-> arg, seen |-> seen, ans |-> "ok"]
      BY <2>1, <2>5 DEF Pending
    <3>2. Pending(call[c], kid[c])
          = [at |-> "done", op |-> op, arg |-> arg, seen |-> seen, ans |-> None]
      BY <2>5 DEF Pending, None
    <3> HIDE DEF op, arg, seen
    <3>3. op \in {op, arg, seen} /\ arg \in {op, arg, seen} /\ seen \in {op, arg, seen}
      OBVIOUS
    <3>4. [[at |-> "done", op |-> op, arg |-> arg, seen |-> seen, ans |-> None]
             EXCEPT !.at = "answered", !.ans = "ok"]
          = [at |-> "answered", op |-> op, arg |-> arg, seen |-> seen, ans |-> "ok"]
      BY <3>3, AnsweredFields
    <3> QED  BY <3>1, <3>2, <3>4, Zenon
  <2> QED  BY <1>2, <1>3, <1>4, <1>8, <2>3, <2>4, <2>6 DEF BridgeHere!AnswerOk
<1> QED  BY <1>4, <1>6, <1>7, <1>8

\* provision going on to inspect is nothing to the bridge.
LEMMA InspectMaps ==
    ASSUME KentoInv, NEW c \in Callers, Inspect(c)
    PROVE  BridgeHere!AnswerError(c) \/ UNCHANGED <<live, BridgePend, BridgeLate>>
<1> DEFINE m == [call[c] EXCEPT !.at = "wait", !.got = {}]
           k == Spawned("inspect")
<1>1. /\ call[c].at = "collect" /\ kid[c].run = "create" /\ kid[c].code = "ok"
      /\ Sound(call[c], kid[c]) /\ call[c] \in CallLocals
      /\ live' = live /\ late' = late
  BY DEF Inspect, AtEnd, GoesOn, Verdict, KentoInv, KentoTypeOK
<1>2. CASE call' = Answer(c, "err") /\ kid' = [kid EXCEPT ![c] = NoKid]
  <2>1. BridgeLate' = BridgeLate
    BY <1>1 DEF BridgeLate
  <2> QED  BY <1>1, <1>2, <2>1, Fails DEF InHand
<1>3. CASE call' = [call EXCEPT ![c].at = "wait", ![c].got = {}] /\ kid' = [kid EXCEPT ![c] = k]
  <2>1. /\ call' = [call EXCEPT ![c] = m] /\ m.at = "wait" /\ m.op = call[c].op
        /\ m.arg = call[c].arg /\ m.ans = call[c].ans
    BY <1>1, <1>3 DEF CallLocals
  <2>2. k.run = "inspect"
    BY DEF Spawned, NoKid
  <2> HIDE DEF m, k
  <2>3. Stage(m, k) = "done" /\ Stage(call[c], kid[c]) = "done" /\ call[c].op # "list"
    BY <1>1, <2>1, <2>2 DEF Stage, Sound, InHand
  <2>4. Pending(m, k) = Pending(call[c], kid[c])
    BY <2>1, <2>3 DEF Pending
  <2> QED  BY <1>1, <1>3, <2>1, <2>4, Unseen
<1> QED  BY <1>2, <1>3 DEF Inspect

LEMMA ReadingUnseen ==
    ASSUME KentoInv, NEW c \in Callers, Reap(c) \/ Expire(c) \/ Drain(c)
    PROVE  UNCHANGED <<live, BridgePend, BridgeLate>>
<1>1. call[c] \in CallLocals /\ kid[c] \in KidLocals /\ live' = live /\ late' = late
  BY DEF Reap, Expire, Drain, KentoInv, KentoTypeOK
<1>2. CASE Reap(c)
  <2> DEFINE m == [call[c] EXCEPT !.at = "collect"]
  <2>1. /\ call' = [call EXCEPT ![c] = m] /\ kid' = [kid EXCEPT ![c] = kid[c]]
        /\ m.at = "collect" /\ call[c].at = "wait" /\ m.op = call[c].op
        /\ m.arg = call[c].arg /\ m.ans = call[c].ans
    BY <1>1, <1>2 DEF Reap, CallLocals, KentoInv, KentoTypeOK
  <2> HIDE DEF m
  <2>2. Stage(m, kid[c]) = Stage(call[c], kid[c])
    BY <2>1 DEF Stage
  <2>3. Pending(m, kid[c]) = Pending(call[c], kid[c])
    BY <2>1, <2>2 DEF Pending
  <2> QED  BY <1>1, <2>1, <2>3, Unseen
<1>3. CASE Drain(c)
  <2> DEFINE m == [call[c] EXCEPT !.got = @ \cup kid[c].pipe]
             k == [kid[c] EXCEPT !.pipe = {}]
  <2>1. /\ call' = [call EXCEPT ![c] = m] /\ kid' = [kid EXCEPT ![c] = k]
        /\ m.at = call[c].at /\ m.op = call[c].op /\ m.arg = call[c].arg /\ m.ans = call[c].ans
        /\ k.done = kid[c].done /\ k.run = kid[c].run /\ k.seen = kid[c].seen
    BY <1>1, <1>3 DEF Drain, CallLocals, KidLocals, KentoInv, KentoTypeOK
  <2> HIDE DEF m, k
  <2>2. Stage(m, k) = Stage(call[c], kid[c])
    BY <2>1 DEF Stage
  <2>3. Pending(m, k) = Pending(call[c], kid[c])
    BY <2>1, <2>2 DEF Pending
  <2> QED  BY <1>1, <2>1, <2>3, Unseen
<1>4. CASE Expire(c)
  <2> DEFINE m == [call[c] EXCEPT !.at = "expired"]
             k == [kid[c] EXCEPT !.at = "killed"]
  <2>1. /\ call' = [call EXCEPT ![c] = m] /\ kid' = [kid EXCEPT ![c] = k]
        /\ m.at = "expired" /\ call[c].at = "wait"
        /\ m.op = call[c].op /\ m.arg = call[c].arg /\ m.ans = call[c].ans
        /\ k.done = kid[c].done /\ k.run = kid[c].run /\ k.seen = kid[c].seen
    BY <1>1, <1>4 DEF Expire, CallLocals, KidLocals, KentoInv, KentoTypeOK
  <2> HIDE DEF m, k
  <2>2. Stage(m, k) = Stage(call[c], kid[c])
    BY <2>1 DEF Stage
  <2>3. Pending(m, k) = Pending(call[c], kid[c])
    BY <2>1, <2>2 DEF Pending
  <2> QED  BY <1>1, <2>1, <2>3, Unseen
<1> QED  BY <1>2, <1>3, <1>4

-----------------------------------------------------------------------------
\* The steps of a child, as the bridge sees them.

LEMMA WorkMaps ==
    ASSUME KentoInv, NEW c \in Callers, KidActs(c)
    PROVE  BridgeHere!TakeEffect(c)
<1> DEFINE k == [kid[c] EXCEPT !.done = TRUE]
<1>1. /\ Sound(call[c], kid[c]) /\ call[c] \in CallLocals /\ kid[c] \in KidLocals
      /\ kid[c].run \in {"create", "destroy"} /\ ~kid[c].done /\ kid[c] # NoKid
      /\ kid' = [kid EXCEPT ![c] = k] /\ call' = [call EXCEPT ![c] = call[c]]
      /\ live' = Effect(kid[c].run, call[c].arg) /\ late' = late
  BY DEF KidActs, Lives, NoKid, KentoInv, KentoTypeOK
<1>2. k.done /\ k.run = kid[c].run /\ k.seen = kid[c].seen
  BY <1>1 DEF KidLocals
<1>3. call[c].at \in InHand /\ call[c].ans = None
  BY <1>1, Stages DEF Sound, InHand, CallLocals, None
<1>4. /\ BridgePend[c].at = "open" /\ BridgePend[c].op = call[c].op
      /\ BridgePend[c].arg = call[c].arg
      /\ call[c].op = IF kid[c].run = "create" THEN "provision" ELSE "teardown"
  BY <1>1, <1>3, Stages
<1>5. live' = BridgeHere!After(BridgePend[c].op, BridgePend[c].arg)
  BY <1>1, <1>4 DEF Effect, BridgeHere!After
<1> HIDE DEF k
<1>6. BridgePend' = [BridgePend EXCEPT ![c] = Pending(call[c], k)]
      /\ BridgePend[c] = Pending(call[c], kid[c])
  BY <1>1, PendMoves
<1>7. /\ Stage(call[c], k) = "done" /\ Stage(call[c], kid[c]) = "open"
  BY <1>1, <1>2, <1>3 DEF Stage, InHand
<1>8. Pending(call[c], k) = [Pending(call[c], kid[c]) EXCEPT !.at = "done"]
  BY <1>2, <1>3, <1>7 DEF Pending
<1>9. BridgeLate' = BridgeLate
  BY <1>1 DEF BridgeLate
<1>10. BridgePend' = [BridgePend EXCEPT ![c].at = "done"]
  BY <1>6, <1>8
<1> QED  BY <1>4, <1>5, <1>9, <1>10 DEF BridgeHere!TakeEffect

LEMMA LookMaps ==
    ASSUME KentoInv, NEW c \in Callers, KidLooks(c)
    PROVE  BridgeHere!TakeEffect(c) \/ UNCHANGED <<live, BridgePend, BridgeLate>>
<1> DEFINE found == IF kid[c].run = "list" THEN live ELSE live \cap {call[c].arg}
           k == [kid[c] EXCEPT !.done = TRUE, !.seen = found, !.todo = found]
<1>1. /\ Sound(call[c], kid[c]) /\ call[c] \in CallLocals /\ kid[c] \in KidLocals
      /\ kid[c].run \in {"list", "inspect"} /\ ~kid[c].done /\ kid[c] # NoKid
      /\ kid[c].at = "up"
      /\ kid' = [kid EXCEPT ![c] = k] /\ call' = [call EXCEPT ![c] = call[c]]
      /\ live' = live /\ late' = late
  BY DEF KidLooks, NoKid, KentoInv, KentoTypeOK
<1>2. k.done /\ k.run = kid[c].run /\ k.seen = found
  BY <1>1 DEF KidLocals
<1>3. call[c].at \in InHand /\ call[c].ans = None
  BY <1>1, Stages DEF Sound, InHand, CallLocals, None
<1> HIDE DEF k
<1>4. CASE kid[c].run = "inspect"
  <2>1. call[c].op # "list"
    BY <1>3, <1>4, Stages
  <2>2. Stage(call[c], k) = "done" /\ Stage(call[c], kid[c]) = "done"
    BY <1>2, <1>3, <1>4 DEF Stage, InHand
  <2>3. Pending(call[c], k) = Pending(call[c], kid[c])
    BY <2>1, <2>2 DEF Pending
  <2> QED  BY <1>1, <2>3, Unseen
<1>5. CASE kid[c].run = "list"
  <2>1. BridgePend[c].at = "open" /\ BridgePend[c].op = "list" /\ call[c].op = "list"
    BY <1>1, <1>3, <1>5, Stages
  <2>2. BridgePend' = [BridgePend EXCEPT ![c] = Pending(call[c], k)]
        /\ BridgePend[c] = Pending(call[c], kid[c])
    BY <1>1, PendMoves
  <2>3. /\ Stage(call[c], k) = "done" /\ Stage(call[c], kid[c]) = "open" /\ k.seen = live
    BY <1>1, <1>2, <1>3, <1>5 DEF Stage, InHand
  <2>4. Pending(call[c], k) = [Pending(call[c], kid[c]) EXCEPT !.at = "done", !.seen = live]
    <3> DEFINE arg == call[c].arg
               seen == live
    <3>1. /\ Pending(call[c], kid[c])
             = [at |-> "open", op |-> "list", arg |-> arg, seen |-> {}, ans |-> None]
          /\ Pending(call[c], k)
             = [at |-> "done", op |-> "list", arg |-> arg, seen |-> seen, ans |-> None]
          /\ seen = live
      BY <1>1, <1>3, <2>1, <2>3 DEF Pending, Sound, None
    <3> HIDE DEF arg, seen
    <3>2. [[at |-> "open", op |-> "list", arg |-> arg, seen |-> {}, ans |-> None]
             EXCEPT !.at = "done", !.seen = seen]
          = [at |-> "done", op |-> "list", arg |-> arg, seen |-> seen, ans |-> None]
      BY ListedFields, arg \in {arg, seen}, seen \in {arg, seen}
    <3> QED  BY <3>1, <3>2, Zenon
  <2>5. BridgePend' = [BridgePend EXCEPT ![c].at = "done", ![c].seen = live]
    BY <2>2, <2>4
  <2>6. BridgeLate' = BridgeLate
    BY <1>1 DEF BridgeLate
  <2> QED  BY <1>1, <2>1, <2>5, <2>6 DEF BridgeHere!TakeEffect
<1> QED  BY <1>1, <1>4, <1>5

LEMMA RestUnseen ==
    ASSUME KentoInv, NEW c \in Callers,
           KidPrints(c) \/ KidForks(c) \/ HeirEnds(c) \/ KidExits(c) \/ KidDies(c)
    PROVE  UNCHANGED <<live, BridgePend, BridgeLate>>
<1> DEFINE k == kid'[c]
<1>1. /\ call' = [call EXCEPT ![c] = call[c]] /\ kid' = [kid EXCEPT ![c] = k]
      /\ live' = live /\ late' = late
      /\ k.done = kid[c].done /\ k.run = kid[c].run /\ k.seen = kid[c].seen
  <2>1. kid[c] \in KidLocals
    BY DEF KentoInv, KentoTypeOK
  <2>2. CASE KidPrints(c)
    <3>1. PICK u \in kid[c].todo :
            kid' = [kid EXCEPT ![c].todo = @ \ {u}, ![c].pipe = @ \cup {u}]
      BY <2>2 DEF KidPrints
    <3> QED  BY <2>1, <2>2, <3>1 DEF KidPrints, KidLocals, KentoInv, KentoTypeOK
  <2>3. CASE KidForks(c) \/ HeirEnds(c)
    BY <2>1, <2>3 DEF KidForks, HeirEnds, KidLocals, KentoInv, KentoTypeOK
  <2>4. CASE KidExits(c)
    <3>1. PICK code \in {"ok", "failed", "quorum"} :
            kid' = [kid EXCEPT ![c].at = "exited", ![c].code = code]
      BY <2>4 DEF KidExits
    <3> QED  BY <2>1, <2>4, <3>1 DEF KidExits, KidLocals, KentoInv, KentoTypeOK
  <2>5. CASE KidDies(c)
    BY <2>1, <2>5 DEF KidDies, KidLocals, KentoInv, KentoTypeOK
  <2> QED  BY <2>2, <2>3, <2>4, <2>5
<1> HIDE DEF k
<1>2. Stage(call[c], k) = Stage(call[c], kid[c])
  BY <1>1 DEF Stage
<1>3. Pending(call[c], k) = Pending(call[c], kid[c])
  BY <1>1, <1>2 DEF Pending
<1> QED  BY <1>1, <1>3, Unseen

LEMMA LateMaps ==
    ASSUME KentoInv, LateWork
    PROVE  BridgeHere!LateEffect
<1>1. PICK w \in late :
        /\ late' = late \ {w}
        /\ live' \in {live, Effect(w.run, w.arg)}
        /\ UNCHANGED <<call, kid>>
  BY DEF LateWork
<1>2. \A v \in late : Outlasting(v) = Outlasting(w) => v = w
  <2>1. TAKE v \in late
  <2>2. v \in Work /\ w \in Work
    BY DEF KentoInv, KentoTypeOK
  <2> QED  BY <2>2 DEF Work, Outlasting
<1>3. Outlasting(w) \in BridgeLate /\ BridgeLate' = BridgeLate \ {Outlasting(w)}
  BY <1>1, <1>2 DEF BridgeLate
<1>4. Effect(w.run, w.arg) = BridgeHere!After(Outlasting(w).op, Outlasting(w).arg)
  <2>1. w.run \in {"create", "destroy"}
    BY DEF KentoInv, KentoTypeOK, Work
  <2> QED  BY <2>1 DEF Effect, BridgeHere!After, Outlasting
<1>5. BridgePend' = BridgePend
  BY <1>1 DEF BridgePend
<1> QED  BY <1>1, <1>3, <1>4, <1>5 DEF BridgeHere!LateEffect

-----------------------------------------------------------------------------

LEMMA BridgeInitial == KentoInit => BridgeHere!Init
<1>1. Pending(NoCall, NoKid) = BridgeHere!Quiet
  BY DEF Pending, Stage, NoCall, NoKid, BridgeHere!Quiet, BridgeHere!None, None
<1> QED  BY <1>1 DEF KentoInit, BridgeHere!Init, BridgePend, BridgeLate

LEMMA BridgeStep ==
    ASSUME KentoInv, [KentoNext]_kentoVars
    PROVE  BridgeHere!Next \/ UNCHANGED <<live, BridgePend, BridgeLate>>
<1>1. CASE UNCHANGED kentoVars
  BY <1>1 DEF kentoVars, BridgePend, BridgeLate
<1>2. ASSUME NEW c \in Callers, NEW a \in Asks[c], Begin(c, a.op, a.arg) PROVE BridgeHere!Next
  <2>1. a \in Asked
    BY <1>2, AsksAssumption
  <2>2. a.op \in BridgeHere!Ops /\ a.arg \in Guests \cup {BridgeHere!None}
    BY <2>1 DEF Asked, BridgeHere!Ops, BridgeHere!None, None
  <2> QED  BY <1>2, <2>2, BeginMaps DEF BridgeHere!Next
<1>3. ASSUME NEW c \in Callers,
             CallerStep(c) \/ WaitFails(c) \/ Return(c) \/ Crash(c) \/ KidStep(c)
      PROVE  BridgeHere!Next \/ UNCHANGED <<live, BridgePend, BridgeLate>>
  BY <1>3, GiveUpMaps, ReturnMaps, FinishMaps, InspectMaps, ReadingUnseen, WorkMaps, LookMaps,
     RestUnseen
  DEF CallerStep, KidStep, BridgeHere!Next
<1>4. CASE LateWork
  BY <1>4, LateMaps DEF BridgeHere!Next
<1> QED  BY <1>1, <1>2, <1>3, <1>4 DEF KentoNext

\* The harness implements the bridge.
THEOREM BridgeImplemented == KentoSpec => ImplementsBridge
<1>1. KentoInv /\ [KentoNext]_kentoVars => [BridgeHere!Next]_<<live, BridgePend, BridgeLate>>
  BY BridgeStep
<1> QED
  BY <1>1, BridgeInitial, KentoInvariant, PTL
  DEF KentoSpec, ImplementsBridge, BridgeHere!Spec, BridgeHere!vars

=============================================================================
