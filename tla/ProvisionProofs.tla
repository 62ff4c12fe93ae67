--------------------------- MODULE ProvisionProofs ---------------------------
(***************************************************************************)
(* For any config files, requests and owners, whenever the config is       *)
(* edited and whichever process dies: kento is asked only for what the     *)
(* helper's config allows, the helper refuses nothing that the front-end   *)
(* leased for unless the config was edited or the owner's name is not      *)
(* valid, and a reply is true.                                             *)
(*                                                                         *)
(* The proofs rest on what the two ways of asking the same valid config    *)
(* have in common (the first part), and on what each process keeps of the  *)
(* config it has checked (Resolved, Granted).                              *)
(***************************************************************************)
EXTENDS Provision, WellFoundedInduction, TLAPS

-----------------------------------------------------------------------------
\* The config, asked by name and by ref.

LEMMA SmallestOf ==
    ASSUME NEW S, S \subseteq Nat, S # {}
    PROVE  \E i \in S : \A j \in S : i <= j
<1> DEFINE R == OpToRel(<, Nat)
<1>1. IsWellFoundedOn(R, Nat)
  BY NatLessThanWellFounded, Zenon
<1>2. \A ss : ss \in R <=> ss \in Nat \X Nat /\ ss[1] < ss[2]
  BY DEF OpToRel
<1> HIDE DEF R
<1>3. PICK i \in S : \A j \in S : ~ (<<j, i>> \in R)
  BY <1>1, WFMin
<1>4. ASSUME NEW j \in S PROVE i <= j
  <2>1. ~ (j < i)
    BY <1>2, <1>3
  <2> QED  BY <2>1
<1> QED  BY <1>4

\* The first entry with a ref is an entry with that ref.
LEMMA FirstHasRef ==
    ASSUME NEW conf \in Configs, NEW ref, HasRef(conf, ref)
    PROVE  /\ conf.images[FirstWithRef(conf, ref)] \in Listed(conf)
           /\ conf.images[FirstWithRef(conf, ref)].ref = ref
<1> DEFINE places == {i \in DOMAIN conf.images : conf.images[i].ref = ref}
<1>1. DOMAIN conf.images \subseteq Nat
  BY ConfigsAssumption
<1>2. places # {}
  BY DEF HasRef, Listed
<1>3. \E i \in places : \A j \in places : i <= j
  BY <1>1, <1>2, SmallestOf
<1>4. FirstWithRef(conf, ref) \in places
  BY <1>3 DEF FirstWithRef
<1> QED  BY <1>4 DEF Listed

\* The entry that a name resolves to.
LEMMA ImageOfName ==
    ASSUME NEW conf, NEW name, HasImage(conf, name)
    PROVE  ImageOf(conf, name) \in Listed(conf) /\ ImageOf(conf, name).name = name
BY DEF HasImage, ImageOf

\* A valid config has one login user for all entries with a ref, and finds it.
LEMMA OneLoginUser ==
    ASSUME NEW conf \in Configs, Valid(conf), NEW img \in Listed(conf)
    PROVE  LoginUserForRef(conf, img.ref) = LoginUser(conf, img)
<1>1. HasRef(conf, img.ref)
  BY DEF HasRef
<1> QED  BY <1>1, FirstHasRef DEF LoginUserForRef, Valid

\* The mode that a name resolves to is one of its entry.
LEMMA ModeOfEntry ==
    ASSUME NEW conf \in Configs, NEW name, NEW mode, Resolves(conf, name, mode)
    PROVE  \E i \in DOMAIN ImageOf(conf, name).modes :
              ImageOf(conf, name).modes[i] = ResolvedMode(conf, name, mode)
<1> DEFINE modes == ImageOf(conf, name).modes
<1>1. modes \in Seq(Modes)
  BY ImageOfName, ConfigsAssumption DEF Resolves
<1>2. CASE mode = NoMode
  <2>1. modes # <<>>
    BY <1>2 DEF Resolves
  <2>2. 1 \in DOMAIN modes
    BY <1>1, <2>1
  <2> QED  BY <1>2, <2>2 DEF ResolvedMode
<1>3. CASE mode # NoMode
  BY <1>3 DEF Resolves, ResolvedMode
<1> QED  BY <1>2, <1>3

\* Capping a size twice is capping it once, and never makes it 0.
LEMMA ClampedTwice ==
    ASSUME NEW size, NEW ceiling \in Nat
    PROVE  /\ Clamped(Clamped(size, ceiling), ceiling) = Clamped(size, ceiling)
           /\ Sizable(size) => Sizable(Clamped(size, ceiling))
<1> DEFINE Cap(n) == IF n <= ceiling THEN n ELSE ceiling
<1>1. \A n : Cap(Cap(n)) = Cap(n)
  OBVIOUS
<1>2. CASE ceiling = 0
  BY <1>2 DEF Clamped
<1>3. CASE ceiling # 0
  <2>1. \A s : Clamped(s, ceiling) = {Cap(n) : n \in s}
    BY <1>3 DEF Clamped
  <2> HIDE DEF Cap
  <2>2. Clamped(Clamped(size, ceiling), ceiling) = Clamped(size, ceiling)
    <3> DEFINE once == {Cap(n) : n \in size}
               twice == {Cap(n) : n \in once}
    <3>1. \A m \in once : Cap(m) = m
      BY <1>1, Zenon
    <3>2. twice = once
      <4>1. \A m \in twice : m \in once
        BY <3>1, Zenon
      <4>2. \A m \in once : m \in twice
        BY <3>1, Zenon
      <4> QED  BY <4>1, <4>2, Zenon
    <3> QED  BY <2>1, <3>2, Zenon
  <2>3. Sizable(size) => Sizable(Clamped(size, ceiling))
    BY <1>3, <2>1 DEF Sizable, Cap
  <2> QED  BY <2>2, <2>3
<1> QED  BY <1>2, <1>3

-----------------------------------------------------------------------------
\* What is checked once stays true of what was checked.

\* The front-end has resolved the request with the config.
Resolved(conf, req, sent) ==
    /\ conf \in Configs /\ Valid(conf)
    /\ req \in Requests
    /\ Resolves(conf, req.name, req.mode)
    /\ Sizable(req.size)
    /\ sent = Sent(conf, req)

\* The helper has accepted the flags with the config.
Granted(conf, sent, spec) ==
    /\ Accepts(conf, sent)
    /\ \E keyed \in BOOLEAN : spec = SpecOf(conf, sent, keyed)

\* What was resolved by name is accepted by ref, all but the owner.
LEMMA ResolvedIsAccepted ==
    ASSUME NEW conf, NEW req, NEW sent, Resolved(conf, req, sent), ValidOwner(req.owner)
    PROVE  Accepts(conf, sent)
<1> DEFINE img == ImageOf(conf, req.name)
<1>1. img \in Listed(conf) /\ sent.ref = img.ref /\ sent.nesting = img.nesting
      /\ sent.owner = req.owner /\ sent.size = Clamped(req.size, conf.memory)
  BY ImageOfName DEF Resolved, Resolves, Sent
<1>2. ModeOkForRef(conf, sent.ref, sent.mode)
  <2>1. sent.mode = ResolvedMode(conf, req.name, req.mode)
    BY DEF Resolved, Sent
  <2>2. \E i \in DOMAIN img.modes : img.modes[i] = sent.mode
    BY <2>1, ModeOfEntry DEF Resolved
  <2> HIDE DEF img
  <2> QED  BY <1>1, <2>2 DEF ModeOkForRef
<1>3. Sizable(sent.size)
  BY <1>1, ClampedTwice, ConfigsAssumption DEF Resolved
<1> HIDE DEF img
<1> QED  BY <1>1, <1>2, <1>3 DEF Accepts, NestingOkForRef

\* Types of what is sent.
LEMMA SentTypes ==
    ASSUME NEW conf, NEW req, NEW sent, Resolved(conf, req, sent)
    PROVE  sent.owner \in Owners /\ sent.mode \in Modes
<1> DEFINE img == ImageOf(conf, req.name)
<1>1. sent.owner = req.owner /\ sent.mode = ResolvedMode(conf, req.name, req.mode)
  BY DEF Resolved, Sent
<1>2. \E i \in DOMAIN img.modes : img.modes[i] = sent.mode
  BY <1>1, ModeOfEntry DEF Resolved
<1>3. img.modes \in Seq(Modes)
  BY ImageOfName, ConfigsAssumption DEF Resolved, Resolves
<1> HIDE DEF img
<1> QED  BY <1>1, <1>2, <1>3 DEF Resolved, Requests

-----------------------------------------------------------------------------
\* The invariant.

FrontInv ==
    /\ DOMAIN front = {"at", "conf", "req", "sent", "lease"}
    /\ front.at \in {"idle", "leased", "waiting", "replied", "failed"}
    /\ front.lease \in {None, "active", "vanished"}
    /\ front.at # "idle" => Resolved(front.conf, front.req, front.sent)

HelperInv ==
    /\ DOMAIN helper = {"at", "conf", "sent", "spec", "exit"}
    /\ helper.at \in {"idle", "start", "loaded", "kento", "exited"}
    /\ helper.exit \in {None, "ok", "failed", "refused", "killed", "invalid config"}
    /\ helper.at # "exited" => helper.exit = None
    /\ helper.at # "idle" => helper.sent.owner \in Owners /\ helper.sent.mode \in Modes
    /\ helper.at = "loaded" \/ helper.exit = "refused" \/ Asked =>
          helper.conf \in Configs /\ Valid(helper.conf)
    /\ helper.exit = "refused" => ~Accepts(helper.conf, helper.sent)
    /\ Asked => Granted(helper.conf, helper.sent, helper.spec)

KeysInv == keyFiles \subseteq {"held", "left", "orphaned"}

\* What one of the processes knows of the other.
PairInv ==
    /\ front.at = "leased" => helper.at = "idle"
    /\ front.at \in {"replied", "failed"} => helper.at \in {"idle", "exited"}
    /\ front.at # "idle" /\ helper.at # "idle" => helper.sent = front.sent
    /\ front.at = "replied" => helper.exit = "ok"

ProvisionInv == disk \in Configs /\ FrontInv /\ HelperInv /\ KeysInv /\ PairInv

LEMMA ProvisionInitial == Init => ProvisionInv
BY DEF Init, ProvisionInv, FrontInv, HelperInv, KeysInv, PairInv, NoFront, NoHelper,
       Asked, None

-----------------------------------------------------------------------------
\* The front-end and the operator.

LEMMA EditStep == ASSUME ProvisionInv, Edit PROVE ProvisionInv'
BY ZenonT(40) DEF Edit, ProvisionInv, FrontInv, HelperInv, KeysInv, PairInv, Asked

LEMMA LeaseStep ==
    ASSUME ProvisionInv, NEW req \in Requests, Lease(req)
    PROVE  ProvisionInv'
<1>1. /\ helper.at = "idle" /\ UNCHANGED <<disk, helper, keyFiles>>
      /\ front'.at = "leased" /\ front'.conf = disk /\ front'.req = req
      /\ front'.sent = Sent(disk, req) /\ front'.lease = "active"
      /\ DOMAIN front' = {"at", "conf", "req", "sent", "lease"}
  BY DEF Lease
<1>2. Resolved(disk, req, Sent(disk, req))
  BY DEF Lease, Resolved, ProvisionInv
<1>3. FrontInv'
  BY <1>1, <1>2 DEF FrontInv
<1>4. HelperInv' /\ KeysInv'
  BY <1>1 DEF ProvisionInv, HelperInv, KeysInv, Asked
<1>5. PairInv'
  BY <1>1 DEF PairInv
<1> QED  BY <1>1, <1>3, <1>4, <1>5 DEF ProvisionInv

\* The front-end goes on from what it resolved.
LEMMA FrontGoesOn ==
    ASSUME FrontInv, front.at # "idle",
           NEW at \in {"waiting", "replied"},
           front' \in RolledBack(front) \/ front' = [front EXCEPT !.at = at]
    PROVE  FrontInv' /\ front'.at \in {at, "failed"} /\ front'.sent = front.sent
<1>1. CASE front' \in RolledBack(front)
  <2>1. /\ DOMAIN front' = DOMAIN front
        /\ front'.at = "failed" /\ front'.lease \in {"active", "vanished"}
        /\ front'.conf = front.conf /\ front'.req = front.req /\ front'.sent = front.sent
    BY <1>1 DEF RolledBack, FrontInv
  <2> QED  BY <2>1 DEF FrontInv
<1>2. CASE front' = [front EXCEPT !.at = at]
  <2>1. /\ DOMAIN front' = DOMAIN front
        /\ front'.at = at /\ front'.lease = front.lease
        /\ front'.conf = front.conf /\ front'.req = front.req /\ front'.sent = front.sent
    BY <1>2 DEF FrontInv
  <2> QED  BY <2>1 DEF FrontInv
<1> QED  BY <1>1, <1>2

LEMMA ElevateStep == ASSUME ProvisionInv, Elevate PROVE ProvisionInv'
<1>1. /\ front.at = "leased" /\ helper.at = "idle" /\ UNCHANGED <<disk, keyFiles>>
      /\ FrontInv /\ HelperInv /\ KeysInv /\ disk \in Configs
  BY DEF Elevate, ProvisionInv, PairInv
<1>2. FrontInv' /\ front'.at \in {"waiting", "failed"} /\ front'.sent = front.sent
  BY <1>1, FrontGoesOn DEF Elevate
<1>3. CASE helper' = [NoHelper EXCEPT !.at = "start", !.sent = front.sent]
  <2>1. /\ DOMAIN helper' = {"at", "conf", "sent", "spec", "exit"}
        /\ helper'.at = "start" /\ helper'.sent = front.sent /\ helper'.exit = None
    BY <1>3 DEF NoHelper
  <2>2. HelperInv'
    BY <1>1, <2>1, SentTypes DEF HelperInv, FrontInv, Asked, None
  <2>3. KeysInv'
    BY <1>1, <2>1 DEF KeysInv
  <2>4. front'.at = "waiting"
    BY <1>1, <1>3, <2>1 DEF Elevate, FrontInv
  <2>5. PairInv'
    BY <1>2, <2>1, <2>4 DEF PairInv
  <2> QED  BY <1>1, <1>2, <2>2, <2>3, <2>5 DEF ProvisionInv
<1>4. CASE UNCHANGED helper /\ front' \in RolledBack(front)
  <2>1. front'.at = "failed"
    BY <1>1, <1>4 DEF RolledBack, FrontInv
  <2>2. HelperInv' /\ KeysInv' /\ PairInv'
    BY <1>1, <1>4, <2>1 DEF HelperInv, KeysInv, PairInv, Asked
  <2> QED  BY <1>1, <1>2, <2>2 DEF ProvisionInv
<1> QED  BY <1>3, <1>4 DEF Elevate

LEMMA SettleStep == ASSUME ProvisionInv, Settle PROVE ProvisionInv'
<1>1. /\ front.at = "waiting" /\ helper.at = "exited" /\ UNCHANGED <<disk, helper, keyFiles>>
      /\ FrontInv /\ HelperInv /\ KeysInv /\ PairInv /\ disk \in Configs
  BY DEF Settle, ProvisionInv
<1>2. FrontInv' /\ front'.at \in {"replied", "failed"} /\ front'.sent = front.sent
  BY <1>1, FrontGoesOn DEF Settle
<1>3. front'.at = "replied" => helper.exit = "ok"
  BY <1>1 DEF Settle, RolledBack, FrontInv
<1>4. HelperInv' /\ KeysInv'
  BY <1>1 DEF HelperInv, KeysInv, Asked
<1>5. PairInv'
  BY <1>1, <1>2, <1>3 DEF PairInv
<1> QED  BY <1>1, <1>2, <1>4, <1>5 DEF ProvisionInv

LEMMA FrontEndsStep == ASSUME ProvisionInv, FrontEnds PROVE ProvisionInv'
<1>1. /\ front' = NoFront /\ UNCHANGED <<disk, keyFiles>>
      /\ (helper' = NoHelper /\ helper.at = "exited") \/ helper' = helper
      /\ HelperInv /\ KeysInv /\ disk \in Configs
  BY DEF FrontEnds, ProvisionInv
<1>2. FrontInv' /\ PairInv'
  BY <1>1 DEF FrontInv, PairInv, NoFront, None
<1>3. CASE helper' = helper
  <2>1. HelperInv' /\ KeysInv'
    BY <1>1, <1>3 DEF HelperInv, KeysInv, Asked
  <2> QED  BY <1>1, <1>2, <2>1 DEF ProvisionInv
<1>4. CASE helper' = NoHelper /\ helper.at = "exited"
  <2>1. helper'.at = "idle" /\ helper'.exit = None
        /\ DOMAIN helper' = {"at", "conf", "sent", "spec", "exit"}
    BY <1>4 DEF NoHelper
  <2>2. HelperInv' /\ KeysInv'
    BY <1>1, <1>4, <2>1 DEF HelperInv, KeysInv, Asked, None
  <2> QED  BY <1>1, <1>2, <2>2 DEF ProvisionInv
<1> QED  BY <1>1, <1>3, <1>4

-----------------------------------------------------------------------------
\* The helper.

\* A helper that ends, for whatever reason, leaves the front-end alone.
LEMMA ExitStep ==
    ASSUME ProvisionInv, helper.at \in {"start", "loaded", "kento"},
           NEW exit \in {"ok", "failed", "refused", "killed", "invalid config"}, Exit(exit),
           exit = "refused" => helper.at = "loaded" /\ ~Accepts(helper.conf, helper.sent),
           exit \in {"ok", "failed"} => helper.at = "kento",
           UNCHANGED <<disk, front>>,
           keyFiles' \subseteq {"held", "left", "orphaned"}
    PROVE  ProvisionInv'
<1>1. FrontInv /\ HelperInv /\ PairInv /\ disk \in Configs
  BY DEF ProvisionInv
<1>2. CASE helper' = NoHelper
  <2>1. HelperInv' /\ KeysInv'
    BY <1>2 DEF HelperInv, KeysInv, Asked, NoHelper, None
  <2>2. PairInv'
    BY <1>1, <1>2 DEF PairInv, NoHelper
  <2>3. FrontInv'
    BY <1>1 DEF FrontInv
  <2> QED  BY <1>1, <2>1, <2>2, <2>3 DEF ProvisionInv
<1>3. CASE helper' = [helper EXCEPT !.at = "exited", !.exit = exit]
  <2>1. /\ DOMAIN helper' = DOMAIN helper
        /\ helper'.at = "exited" /\ helper'.exit = exit /\ helper'.conf = helper.conf
        /\ helper'.sent = helper.sent /\ helper'.spec = helper.spec
    BY <1>1, <1>3 DEF HelperInv
  <2>2. HelperInv'
    BY <1>1, <2>1 DEF HelperInv, Asked, None
  <2>3. KeysInv'
    BY <2>1 DEF KeysInv
  <2>4. front.at \notin {"leased", "replied"}
    BY <1>1 DEF PairInv
  <2>5. PairInv'
    BY <1>1, <2>1, <2>4 DEF PairInv
  <2>6. FrontInv'
    BY <1>1 DEF FrontInv
  <2> QED  BY <1>1, <2>2, <2>3, <2>5, <2>6 DEF ProvisionInv
<1> QED  BY <1>2, <1>3 DEF Exit

\* A helper that goes on.
LEMMA HelperGoesOn ==
    ASSUME ProvisionInv, HelperInv', KeysInv', helper.at \in {"start", "loaded"},
           helper'.at \in {"loaded", "kento"}, helper'.sent = helper.sent,
           UNCHANGED <<disk, front>>
    PROVE  ProvisionInv'
BY DEF ProvisionInv, FrontInv, PairInv

LEMMA LoadStep == ASSUME ProvisionInv, Load PROVE ProvisionInv'
<1>1. /\ helper.at = "start" /\ UNCHANGED <<disk, front, keyFiles>>
      /\ HelperInv /\ KeysInv /\ disk \in Configs
  BY DEF Load, ProvisionInv
<1>2. CASE Valid(disk) /\ helper' = [helper EXCEPT !.at = "loaded", !.conf = disk]
  <2>1. /\ DOMAIN helper' = DOMAIN helper
        /\ helper'.at = "loaded" /\ helper'.exit = helper.exit /\ helper'.conf = disk
        /\ helper'.sent = helper.sent
    BY <1>1, <1>2 DEF HelperInv
  <2>2. HelperInv'
    BY <1>1, <1>2, <2>1 DEF HelperInv, Asked, None
  <2>3. KeysInv'
    BY <1>1, <2>1 DEF KeysInv
  <2> QED  BY <1>1, <2>1, <2>2, <2>3, HelperGoesOn
<1>3. CASE Exit("invalid config")
  BY <1>1, <1>3, ExitStep DEF KeysInv
<1> QED  BY <1>2, <1>3 DEF Load

LEMMA RunKentoStep == ASSUME ProvisionInv, RunKento PROVE ProvisionInv'
<1>1. PICK file \in KeyFile :
        /\ helper' = [helper EXCEPT !.at = "kento",
                         !.spec = SpecOf(helper.conf, helper.sent, file = "held")]
        /\ keyFiles' = keyFiles \cup ({file} \ {"none"})
  BY DEF RunKento
<1>2. /\ helper.at = "loaded" /\ Accepts(helper.conf, helper.sent) /\ UNCHANGED <<disk, front>>
      /\ HelperInv /\ KeysInv
  BY DEF RunKento, ProvisionInv
<1> DEFINE keyed == file = "held"
<1>3. /\ DOMAIN helper' = DOMAIN helper
      /\ helper'.at = "kento" /\ helper'.exit = helper.exit /\ helper'.conf = helper.conf
      /\ helper'.sent = helper.sent /\ helper'.spec = SpecOf(helper.conf, helper.sent, keyed)
  BY <1>1, <1>2 DEF HelperInv
<1>4. keyed \in BOOLEAN /\ helper'.spec.keyed = keyed
  BY <1>3 DEF SpecOf
<1>5. Granted(helper.conf, helper.sent, helper'.spec)
  BY <1>2, <1>3, <1>4 DEF Granted
<1>6. HelperInv'
  BY <1>2, <1>3, <1>5 DEF HelperInv, Asked
<1>7. KeysInv'
  BY <1>1, <1>2, <1>3, <1>4 DEF KeysInv, KeyFile
<1> QED  BY <1>2, <1>3, <1>6, <1>7, HelperGoesOn

LEMMA HelperEndsStep ==
    ASSUME ProvisionInv, Refuse \/ KentoReturns \/ HelperDies
    PROVE  ProvisionInv'
<1>1. KeysInv
  BY DEF ProvisionInv
<1>2. CASE Refuse
  BY <1>1, <1>2, ExitStep DEF Refuse, KeysInv
<1>3. CASE KentoReturns
  <2>1. PICK exit \in {"ok", "failed"} : Exit(exit)
    BY <1>3 DEF KentoReturns
  <2> QED  BY <1>1, <1>3, <2>1, ExitStep DEF KentoReturns, KeysInv
<1>4. CASE HelperDies
  BY <1>1, <1>4, ExitStep DEF HelperDies, KeysInv
<1> QED  BY <1>2, <1>3, <1>4

-----------------------------------------------------------------------------

\* The invariant holds of every behaviour.
THEOREM ProvisionInvariant == Spec => []ProvisionInv
<1>1. ProvisionInv /\ UNCHANGED vars => ProvisionInv'
  BY DEF vars, ProvisionInv, FrontInv, HelperInv, KeysInv, PairInv, Asked
<1>2. ProvisionInv /\ [Next]_vars => ProvisionInv'
  BY <1>1, EditStep, LeaseStep, ElevateStep, SettleStep, FrontEndsStep, LoadStep, RunKentoStep,
     HelperEndsStep
  DEF Next
<1> QED  BY <1>2, ProvisionInitial, PTL DEF Spec

\* The types of all variables.
THEOREM ProvisionTypes == Spec => []TypeOK
<1>1. ProvisionInv => TypeOK
  BY SentTypes DEF ProvisionInv, FrontInv, HelperInv, KeysInv, Resolved, TypeOK
<1> QED  BY <1>1, ProvisionInvariant, PTL

\* kento is asked only for what the helper's own config allows.
THEOREM AskedAsAllowed == Spec => []AsAllowed
<1>1. ASSUME ProvisionInv, Asked
      PROVE  LET entries == {img \in Listed(helper.conf) : img.ref = helper.spec.ref} IN
             /\ \E img \in entries : \E i \in DOMAIN img.modes : img.modes[i] = helper.spec.mode
             /\ \E img \in entries : img.nesting = helper.spec.nesting
             /\ \A img \in entries : LoginUser(helper.conf, img) = helper.spec.user
  <2>1. /\ helper.conf \in Configs /\ Valid(helper.conf)
        /\ Accepts(helper.conf, helper.sent)
        /\ helper.spec.ref = helper.sent.ref /\ helper.spec.mode = helper.sent.mode
        /\ helper.spec.nesting = helper.sent.nesting
        /\ helper.spec.user = LoginUserForRef(helper.conf, helper.sent.ref)
    <3>1. /\ helper.conf \in Configs /\ Valid(helper.conf)
          /\ Granted(helper.conf, helper.sent, helper.spec)
      BY <1>1 DEF ProvisionInv, HelperInv
    <3> QED  BY <3>1 DEF Granted, SpecOf
  <2>2. \A img \in Listed(helper.conf) : img.ref = helper.sent.ref
           => LoginUserForRef(helper.conf, helper.sent.ref) = LoginUser(helper.conf, img)
    BY <2>1, OneLoginUser
  <2> QED  BY <2>1, <2>2 DEF Accepts, ModeOkForRef, NestingOkForRef
<1>2. ProvisionInv => AsAllowed
  BY <1>1 DEF AsAllowed
<1> QED  BY <1>2, ProvisionInvariant, PTL

\* Only an edit, or the owner's name, makes the helper refuse what was leased.
THEOREM OnlyEditsAreRefused == Spec => []RefusesOnlyEdited
<1>1. ProvisionInv => RefusesOnlyEdited
  <2>1. SUFFICES ASSUME ProvisionInv, Unedited, helper.exit = "refused"
                 PROVE  ~ValidOwner(front.req.owner)
    BY DEF RefusesOnlyEdited
  <2>2. /\ front.at # "idle" /\ helper.at = "exited" /\ helper.conf = front.conf
        /\ helper.sent = front.sent /\ ~Accepts(helper.conf, helper.sent)
        /\ Resolved(front.conf, front.req, front.sent)
    BY <2>1 DEF Unedited, ProvisionInv, FrontInv, HelperInv, PairInv, None
  <2> QED  BY <2>2, ResolvedIsAccepted
<1> QED  BY <1>1, ProvisionInvariant, PTL

\* A reply is true.
THEOREM RepliesAreTrue == Spec => []ReplyIsTrue
<1>1. ASSUME ProvisionInv, front.at = "replied"
      PROVE  /\ helper.exit = "ok"
             /\ helper.spec.ref = front.sent.ref /\ helper.spec.mode = front.sent.mode
             /\ helper.spec.nesting = front.sent.nesting
             /\ Unedited =>
                   /\ helper.spec.size = front.sent.size
                   /\ helper.spec.user = LoginUserForImage(front.conf, front.req.name)
  <2>1. /\ helper.exit = "ok" /\ helper.sent = front.sent
        /\ Granted(helper.conf, helper.sent, helper.spec)
        /\ Resolved(front.conf, front.req, front.sent)
    BY <1>1 DEF ProvisionInv, FrontInv, HelperInv, PairInv, Asked, None
  <2>2. /\ helper.spec.ref = front.sent.ref /\ helper.spec.mode = front.sent.mode
        /\ helper.spec.nesting = front.sent.nesting
        /\ helper.spec.size = Clamped(front.sent.size, helper.conf.memory)
        /\ helper.spec.user = LoginUserForRef(helper.conf, front.sent.ref)
    BY <2>1 DEF Granted, SpecOf
  <2>3. ASSUME Unedited PROVE helper.spec.size = front.sent.size
    <3>1. front.sent.size = Clamped(front.req.size, front.conf.memory)
      BY <2>1 DEF Resolved, Sent
    <3>2. front.conf.memory \in Nat
      BY <2>1, ConfigsAssumption DEF Resolved
    <3> QED  BY <2>2, <2>3, <3>1, <3>2, ClampedTwice DEF Unedited
  <2>4. ASSUME Unedited
        PROVE  helper.spec.user = LoginUserForImage(front.conf, front.req.name)
    <3> DEFINE img == ImageOf(front.conf, front.req.name)
    <3>1. /\ HasImage(front.conf, front.req.name) /\ img \in Listed(front.conf)
          /\ front.sent.ref = img.ref /\ front.conf \in Configs /\ Valid(front.conf)
      BY <2>1, ImageOfName DEF Resolved, Resolves, Sent
    <3>2. LoginUserForRef(front.conf, img.ref) = LoginUser(front.conf, img)
      BY <3>1, OneLoginUser
    <3> QED  BY <2>2, <2>4, <3>1, <3>2 DEF Unedited, LoginUserForImage
  <2> QED  BY <2>1, <2>2, <2>3, <2>4
<1>2. ProvisionInv => ReplyIsTrue
  BY <1>1 DEF ReplyIsTrue
<1> QED  BY <1>2, ProvisionInvariant, PTL

=============================================================================
