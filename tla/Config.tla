-------------------------------- MODULE Config --------------------------------
(***************************************************************************)
(* What a config file says of a create (core/src/config.rs and             *)
(* core/src/validate.rs), and the two ways it is asked: the front-end by   *)
(* the name of an image, the root helper by its OCI ref alone, which       *)
(* several names may share.                                                *)
(*                                                                         *)
(* A config is a record: images is the allowlist in the order of its names *)
(* (a BTreeMap), each entry [name, ref, modes, user, nesting]; user is the *)
(* default login user, memory the ceiling (0 = none), range the ends of    *)
(* the address pool, kento the path of kento or NoPath.                    *)
(***************************************************************************)
EXTENDS Naturals, Sequences

NoUser == "no user"
NoMode == "no mode"
NoPath == "no path"
Blank == ""

Listed(conf) == {conf.images[i] : i \in DOMAIN conf.images}

\* The entry's own login user, or the default one.
LoginUser(conf, img) == IF img.user = NoUser THEN conf.user ELSE img.user

\* Mutant: aliases of one ref may have different login users.
ValidDivergent(conf) ==
    /\ conf.images # <<>>
    /\ \A img \in Listed(conf) : img.modes # <<>>
    /\ conf.range[1] < conf.range[2]
    /\ conf.kento # Blank

\* Config::validate.
Valid(conf) ==
    /\ conf.images # <<>>
    /\ \A img \in Listed(conf) : img.modes # <<>>
    /\ \A a, b \in Listed(conf) : a.ref = b.ref => LoginUser(conf, a) = LoginUser(conf, b)
    /\ conf.range[1] < conf.range[2]
    /\ conf.kento # Blank

\* images.get: names are unique.
HasImage(conf, name) == \E img \in Listed(conf) : img.name = name
ImageOf(conf, name) == CHOOSE img \in Listed(conf) : img.name = name

\* resolve_image: the name is listed, and so is the mode for it, if one is given.
Resolves(conf, name, mode) ==
    /\ HasImage(conf, name)
    /\ LET modes == ImageOf(conf, name).modes IN
       IF mode = NoMode THEN modes # <<>> ELSE \E i \in DOMAIN modes : modes[i] = mode

\* Mutant: no default.
ModeAsAsked(conf, name, mode) == mode

\* Without a mode it is the first of the entry.
ResolvedMode(conf, name, mode) == IF mode = NoMode THEN ImageOf(conf, name).modes[1] ELSE mode

LoginUserForImage(conf, name) ==
    IF HasImage(conf, name) THEN LoginUser(conf, ImageOf(conf, name)) ELSE conf.user

\* find: the first entry, in the order of the names, with the ref.
FirstWithRef(conf, ref) ==
    CHOOSE i \in DOMAIN conf.images :
        /\ conf.images[i].ref = ref
        /\ \A j \in DOMAIN conf.images : conf.images[j].ref = ref => i <= j

HasRef(conf, ref) == \E img \in Listed(conf) : img.ref = ref

LoginUserForRef(conf, ref) ==
    IF HasRef(conf, ref) THEN LoginUser(conf, conf.images[FirstWithRef(conf, ref)]) ELSE conf.user

\* Mutant: like LoginUserForRef, the first entry with the ref decides.
NestingOfFirst(conf, ref, nesting) ==
    HasRef(conf, ref) /\ conf.images[FirstWithRef(conf, ref)].nesting = nesting

\* nesting_ok_for_ref: some entry with the ref says so.
NestingOkForRef(conf, ref, nesting) ==
    \E img \in Listed(conf) : img.ref = ref /\ img.nesting = nesting

\* validate_image_ref in the helper: some entry with the ref allows the mode.
ModeOkForRef(conf, ref, mode) ==
    \E img \in Listed(conf) : img.ref = ref /\ \E i \in DOMAIN img.modes : img.modes[i] = mode

\* clamp_resource, in the front-end and again in the helper.  A size that
\* need not be given is a set of at most one number; 0 is refused, and a
\* ceiling of 0 is none.
Sizable(size) == 0 \notin size
Clamped(size, ceiling) ==
    IF ceiling = 0 THEN size ELSE {IF n <= ceiling THEN n ELSE ceiling : n \in size}

=============================================================================
