------------------------------ MODULE OwnerKeys ------------------------------
(***************************************************************************)
(* The owner management of the root helper (seadog-priv/src/owners.rs over *)
(* core/src/authkeys.rs): add-owner and remove-owner each read the whole   *)
(* authorized_keys file, decide, and replace the file by a rename.         *)
(* Nothing keeps a second one from running between the read and the        *)
(* rename.                                                                 *)
(*                                                                         *)
(* A line is its key, its owner and what its comment mentions.  Two        *)
(* searches read a key from a line: key_blob_of_line looks at the tokens   *)
(* from the left and always finds the key, key_body_of_line looks for the  *)
(* key types in the order of KEY_TYPES and, if the comment names one that  *)
(* stands earlier there, reads the comment: "word" if a word follows that  *)
(* name, "last" if nothing does.  Blank lines, comment lines, options and  *)
(* the place of a line in the file are left out.                           *)
(***************************************************************************)
EXTENDS Integers

CONSTANTS
    Process,        \* add-owner and remove-owner processes
    Owner, Key,
    Mention         \* what a key comment may name

NoOwner == "none"       \* of a key that an administrator wrote by hand
NoKey == "no key"       \* what is read at the wrong place

ASSUME OwnerKeysAssumption ==
    /\ Mention \subseteq {"nothing", "word", "last"}
    /\ NoOwner \notin Owner
    /\ NoKey \notin Key

Line == [key : Key, owner : Owner \cup {NoOwner}, mention : Mention]

VARIABLES
    file,       \* the lines of authorized_keys
    process     \* program counter and what to write

vars == <<file, process>>

Idle == [at |-> "idle", lines |-> {}]

OneLineEach(lines) == \A l, m \in lines : l.key = m.key => l = m

Init ==
    /\ file \in {lines \in SUBSET Line : OneLineEach(lines)}
    /\ process = [p \in Process |-> Idle]

\* key_body_of_line: the key, another word, or nothing behind a key type.
BodyOfLine(l) == IF l.mention = "nothing" THEN l.key ELSE NoKey

\* parse_owner_line: the owner, unless there is none or no body.
ParsedOwner(l) == IF l.mention = "last" THEN NoOwner ELSE l.owner

\* list_owners; owner_key_bodies, what a new guest lets in.
ListOwners(lines) == {[owner |-> l.owner, key |-> BodyOfLine(l)] :
                        l \in {m \in lines : ParsedOwner(m) # NoOwner}}
OwnerKeyBodies(lines, owner) == {BodyOfLine(l) : l \in {m \in lines : ParsedOwner(m) = owner}}

\* The file as this process will write it.
Writes(p, lines) ==
    /\ process' = [process EXCEPT ![p] = [at |-> "write", lines |-> lines]]
    /\ UNCHANGED file

Managed(owner, key, mention) == [key |-> key, owner |-> owner, mention |-> mention]

\* Mutants: only the same line is a conflict; owner and key change places.
AddOwnerUnlessSame(p, owner, key, mention) ==
    /\ process[p].at = "idle"
    /\ Managed(owner, key, mention) \notin file
    /\ Writes(p, file \cup {Managed(owner, key, mention)})

AddOwnerSwapped(p, owner, key, mention) ==
    /\ process[p].at = "idle"
    /\ \A l \in file : l.key # key
    /\ Writes(p, file \cup {Managed(key, owner, mention)})

\* add_owner: a key on any line, of whatever owner, ends it here.
AddOwner(p, owner, key, mention) ==
    /\ process[p].at = "idle"
    /\ \A l \in file : l.key # key
    /\ Writes(p, file \cup {Managed(owner, key, mention)})

\* Mutant: what is not managed is not kept.
RemoveOwnerManaged(p, owner) ==
    LET kept == {l \in file : ParsedOwner(l) \notin {owner, NoOwner}} IN
    /\ process[p].at = "idle"
    /\ kept # file
    /\ Writes(p, kept)

\* remove_owner: without a line that parses as the owner's it ends here.
RemoveOwner(p, owner) ==
    LET kept == {l \in file : ParsedOwner(l) # owner} IN
    /\ process[p].at = "idle"
    /\ kept # file
    /\ Writes(p, kept)

\* atomic_write_root_0644.
Write(p) ==
    /\ process[p].at = "write"
    /\ file' = process[p].lines
    /\ process' = [process EXCEPT ![p] = Idle]

\* It dies, or fails to write, before the rename.
Fail(p) ==
    /\ process[p].at = "write"
    /\ process' = [process EXCEPT ![p] = Idle]
    /\ UNCHANGED file

ProcessStep(p) ==
    \/ \E owner \in Owner : RemoveOwner(p, owner)
    \/ \E owner \in Owner, key \in Key, mention \in Mention : AddOwner(p, owner, key, mention)
    \/ Write(p) \/ Fail(p)

Next == \E p \in Process : ProcessStep(p)

Spec == Init /\ [][Next]_vars

(***************************************************************************)
(* Properties                                                              *)
(***************************************************************************)

\* The types of both variables.
TypeOK ==
    /\ file \subseteq Line
    /\ process \in [Process -> [at : {"idle", "write"}, lines : SUBSET Line]]

\* No key ever authenticates two owners, whatever processes overwrite each
\* other's files and whatever comments say: each file written is one that
\* was read, changed once.
KeyHasOneOwner == OneLineEach(file)

\* What an administrator wrote by hand stays, and nothing is added to it.
ByHand(lines) == {l \in lines : l.owner = NoOwner}
HandwrittenKept == [][ByHand(file') = ByHand(file)]_vars

=============================================================================
