------------------------------ MODULE Provision ------------------------------
(***************************************************************************)
(* A create across the privilege boundary: the front-end resolves it with  *)
(* the config it loaded, leases, and hands the root helper an OCI ref, a   *)
(* mode, a nesting flag and a size (seadog/src/verbs/create.rs through     *)
(* seadog/src/elevate.rs); the helper loads the config for itself, checks  *)
(* it all again, writes the owner's keys to a file and runs kento          *)
(* (seadog-priv/src/main.rs, provision.rs).  The config may be edited in   *)
(* between, and either process may die.                                    *)
(*                                                                         *)
(* What the front-end mints (guid, name, MAC) and leases (IP) has the form *)
(* that the helper checks, and is left out, as is all but the size that a  *)
(* sizing request has: cores are treated like memory.                      *)
(***************************************************************************)
EXTENDS Config

CONSTANTS
    Configs,        \* what the config file may hold
    Names,          \* image names that are asked for
    Modes, Sizes,   \* modes, and sizes in a request: sets of at most one number
    Owners,
    BadOwners       \* owners of hand-written keys that validate_owner_name refuses

ASSUME OwnersAssumption == BadOwners \subseteq Owners

ASSUME ConfigsAssumption ==
    \A conf \in Configs :
        /\ conf.memory \in Nat
        /\ conf.images \in Seq(Listed(conf))
        /\ \A img \in Listed(conf) : img.modes \in Seq(Modes)

None == "none"

VARIABLES
    disk,       \* the config file
    front,      \* the front-end that runs a create
    helper,     \* the root helper that it started
    keyFiles    \* files of owners' keys that are on disk

vars == <<disk, front, helper, keyFiles>>

Nothing == [none |-> None]

Requests == [owner : Owners, name : Names, mode : Modes \cup {NoMode}, size : Sizes]

NoFront == [at |-> "idle", conf |-> Nothing, req |-> Nothing, sent |-> Nothing, lease |-> None]
NoHelper == [at |-> "idle", conf |-> Nothing, sent |-> Nothing, spec |-> Nothing, exit |-> None]

Init ==
    /\ disk \in Configs
    /\ front = NoFront
    /\ helper = NoHelper
    /\ keyFiles = {}

\* The operator edits the config.
Edit ==
    /\ disk' \in Configs \ {disk}
    /\ UNCHANGED <<front, helper, keyFiles>>

-----------------------------------------------------------------------------
(* The front-end *)

\* The flags for the helper.  Nesting is that of the entry that was named.
Sent(conf, req) ==
    [owner   |-> req.owner,
     ref     |-> ImageOf(conf, req.name).ref,
     mode    |-> ResolvedMode(conf, req.name, req.mode),
     nesting |-> ImageOf(conf, req.name).nesting,
     size    |-> Clamped(req.size, conf.memory)]

\* load_config and create, up to the lease; a request that the config does
\* not allow ends before it, without effect.  (Creates of different
\* processes share no state here; the model runs one at a time.)
Lease(req) ==
    /\ front.at = "idle" /\ helper.at = "idle"
    /\ Valid(disk)
    /\ Resolves(disk, req.name, req.mode)
    /\ Sizable(req.size)
    /\ front' = [at |-> "leased", conf |-> disk, req |-> req,
                 sent |-> Sent(disk, req), lease |-> "active"]
    /\ UNCHANGED <<disk, helper, keyFiles>>

\* The row is marked vanished, which may fail.
RolledBack(f) == {[f EXCEPT !.at = "failed", !.lease = lease] : lease \in {"active", "vanished"}}

\* elevate: the helper is started under sudo, or cannot be.
Elevate ==
    /\ front.at = "leased"
    /\ \/ /\ helper' = [NoHelper EXCEPT !.at = "start", !.sent = front.sent]
          /\ front' = [front EXCEPT !.at = "waiting"]
       \/ /\ front' \in RolledBack(front)
          /\ UNCHANGED helper
    /\ UNCHANGED <<disk, keyFiles>>

\* elevate's answer: the helper's JSON, or ElevateError and the rollback, also
\* when a helper that exited 0 printed what does not parse.
Settle ==
    /\ front.at = "waiting" /\ helper.at = "exited"
    /\ \/ helper.exit = "ok" /\ front' = [front EXCEPT !.at = "replied"]
       \/ front' \in RolledBack(front)
    /\ UNCHANGED <<disk, helper, keyFiles>>

\* The front-end is done, or dies; a helper that still runs goes on.
FrontEnds ==
    /\ front.at # "idle"
    /\ front' = NoFront
    /\ helper' = IF helper.at = "exited" THEN NoHelper ELSE helper
    /\ UNCHANGED <<disk, keyFiles>>

-----------------------------------------------------------------------------
(* The helper *)

\* Its exit status waits for the front-end, if there still is one.
Exit(exit) ==
    helper' = IF front.at = "idle" THEN NoHelper ELSE [helper EXCEPT !.at = "exited", !.exit = exit]

\* load_config: its own, now.
Load ==
    /\ helper.at = "start"
    /\ IF Valid(disk) THEN helper' = [helper EXCEPT !.at = "loaded", !.conf = disk]
                      ELSE Exit("invalid config")
    /\ UNCHANGED <<disk, front, keyFiles>>

\* validate_owner_name.
ValidOwner(owner) == owner \notin BadOwners

\* Mutant: the mode is not checked again.
AcceptsAnyMode(conf, sent) ==
    /\ ValidOwner(sent.owner)
    /\ HasRef(conf, sent.ref)
    /\ NestingOkForRef(conf, sent.ref, sent.nesting)
    /\ Sizable(sent.size)

\* provision::run, up to the first refusal; the order is left out.
Accepts(conf, sent) ==
    /\ ValidOwner(sent.owner)
    /\ ModeOkForRef(conf, sent.ref, sent.mode)
    /\ NestingOkForRef(conf, sent.ref, sent.nesting)
    /\ Sizable(sent.size)

Refuse ==
    /\ helper.at = "loaded" /\ ~Accepts(helper.conf, helper.sent)
    /\ Exit("refused")
    /\ UNCHANGED <<disk, front, keyFiles>>

\* The ProvisionSpec: keyed when a key file is passed.
SpecOf(conf, sent, keyed) ==
    [ref |-> sent.ref, mode |-> sent.mode, nesting |-> sent.nesting,
     size |-> Clamped(sent.size, conf.memory),
     user |-> LoginUserForRef(conf, sent.ref), keyed |-> keyed]

\* What OwnerKeyFile::create may come to: no file, one that its guard will
\* remove, or one that could not be written to its end and is left.
KeyFile == {"none", "held", "left"}

\* Without keys of the owner, or without a file, the create goes on.
RunKento ==
    /\ helper.at = "loaded" /\ Accepts(helper.conf, helper.sent)
    /\ \E file \in KeyFile :
          /\ helper' = [helper EXCEPT !.at = "kento",
                           !.spec = SpecOf(helper.conf, helper.sent, file = "held")]
          /\ keyFiles' = keyFiles \cup ({file} \ {"none"})
    /\ UNCHANGED <<disk, front>>

\* kento.provision returns and the key file is dropped.
KentoReturns ==
    /\ helper.at = "kento"
    /\ \E exit \in {"ok", "failed"} : Exit(exit)
    /\ keyFiles' = keyFiles \ {"held"}
    /\ UNCHANGED <<disk, front>>

\* It is killed; nothing removes its key file any more.
HelperDies ==
    /\ helper.at \in {"start", "loaded", "kento"}
    /\ Exit("killed")
    /\ keyFiles' = IF "held" \in keyFiles THEN (keyFiles \ {"held"}) \cup {"orphaned"} ELSE keyFiles
    /\ UNCHANGED <<disk, front>>

-----------------------------------------------------------------------------

Next ==
    \/ Edit
    \/ \E req \in Requests : Lease(req)
    \/ Elevate \/ Settle \/ FrontEnds
    \/ Load \/ Refuse \/ RunKento \/ KentoReturns \/ HelperDies

Spec == Init /\ [][Next]_vars

(***************************************************************************)
(* Properties                                                              *)
(***************************************************************************)

Asked == helper.at = "kento" \/ helper.exit \in {"ok", "failed"}

\* The types of the front-end, the helper and the key files.
TypeOK ==
    /\ disk \in Configs
    /\ front.at \in {"idle", "leased", "waiting", "replied", "failed"}
    /\ front.lease \in {None, "active", "vanished"}
    /\ front.at # "idle" => /\ front.conf \in Configs /\ front.req \in Requests
                            /\ front.sent.mode \in Modes
    /\ helper.at \in {"idle", "start", "loaded", "kento", "exited"}
    /\ helper.exit \in {None, "ok", "failed", "refused", "killed", "invalid config"}
    /\ helper.at # "idle" => helper.sent.owner \in Owners /\ helper.sent.mode \in Modes
    /\ keyFiles \subseteq {"held", "left", "orphaned"}

\* Whatever the config was when the front-end resolved the create, kento is
\* asked only for what the helper's own config allows: an entry with the
\* ref has the mode, one has the nesting, and the keys go to the login user
\* of every entry with that ref.
AsAllowed ==
    Asked =>
        LET entries == {img \in Listed(helper.conf) : img.ref = helper.spec.ref} IN
        /\ \E img \in entries : \E i \in DOMAIN img.modes : img.modes[i] = helper.spec.mode
        /\ \E img \in entries : img.nesting = helper.spec.nesting
        /\ \A img \in entries : LoginUser(helper.conf, img) = helper.spec.user

Unedited == front.at # "idle" /\ helper.conf = front.conf

\* If the config was not edited in between, the helper, which knows the
\* ref, refuses nothing that the front-end, which knows the name, has
\* leased for; only an owner's name may be refused.
RefusesOnlyEdited ==
    Unedited /\ helper.exit = "refused" => ~ValidOwner(front.req.owner)

\* A reply is true: the guest was created, with the ref, mode and nesting of
\* the entry that was named, and if the config was not edited, with the size
\* of the reply and the keys for that entry's login user, which the helper
\* finds by the ref alone.
ReplyIsTrue ==
    front.at = "replied" =>
        /\ helper.exit = "ok"
        /\ helper.spec.ref = front.sent.ref /\ helper.spec.mode = front.sent.mode
        /\ helper.spec.nesting = front.sent.nesting
        /\ Unedited =>
              /\ helper.spec.size = front.sent.size
              /\ helper.spec.user = LoginUserForImage(front.conf, front.req.name)

\* "removed on drop (success OR error path)" (provision.rs:42-43): when a helper
\* has come back from kento, well or not, only files of helpers that were killed
\* are on disk.  Not so after a write that failed: create returns before there
\* is anything to be dropped.
KeyFileRemoved == helper.exit \in {"ok", "failed"} => keyFiles \subseteq {"orphaned"}

=============================================================================
