----------------------------- MODULE CommandLine -----------------------------
(***************************************************************************)
(* How the front-end finds the owner and the verb in what sshd started it  *)
(* with (resolve_argv and run in seadog/src/main.rs, owner_from_args in    *)
(* seadog/src/owner.rs).                                                   *)
(*                                                                         *)
(* A command line is a sequence of tokens, a token a record: is tells      *)
(* "--owner", "--owner=", "-c", a word and a text apart, name is the owner *)
(* after "--owner=" or the word itself, and text is the command line that  *)
(* a single argument holds after -c.                                       *)
(***************************************************************************)
EXTENDS Naturals, SequencesExt

NoOwner == "none"
NoText == <<>>

Token(is, name, text) == [is |-> is, name |-> name, text |-> text]

OwnerFlag == Token("--owner", "--owner", NoText)
OwnerIs(owner) == Token("--owner=", owner, NoText)
DashC == Token("-c", "-c", NoText)
Word(name) == Token("word", name, NoText)
Text(line) == Token("text", "text", line)

\* The places where an owner can be read: "--owner" that is not the last
\* token, and "--owner=".
OwnerPlaces(argv) ==
    {i \in DOMAIN argv :
        argv[i].is = "--owner=" \/ (argv[i].is = "--owner" /\ i < Len(argv))}

OwnerAt(argv, i) == IF argv[i].is = "--owner=" THEN argv[i].name ELSE argv[i + 1].name

\* How many tokens an owner takes.
Width(token) == IF token.is = "--owner=" THEN 1 ELSE 2

\* owner_from_args: the first owner and the rest; without one, an "--owner"
\* at the end is dropped.
OwnerFromArgs(argv) ==
    IF OwnerPlaces(argv) = {}
    THEN [owner |-> NoOwner,
          rest |-> IF argv # NoText /\ Last(argv).is = "--owner" THEN Front(argv) ELSE argv]
    ELSE LET i == Min(OwnerPlaces(argv)) IN
         [owner |-> OwnerAt(argv, i),
          rest |-> SubSeq(argv, 1, i - 1) \o SubSeq(argv, i + Width(argv[i]), Len(argv))]

Unread == [owner |-> NoOwner, dashC |-> FALSE, text |-> NoText, direct |-> NoText, next |-> 1]

\* scan_login_argv takes the first owner and the first -c, each with its
\* value, and leaves the rest; next is the token it looks at next.
ScanToken(argv, s, i) ==
    IF i < s.next THEN s
    ELSE CASE i \in OwnerPlaces(argv) /\ s.owner = NoOwner ->
                [s EXCEPT !.owner = OwnerAt(argv, i), !.next = i + Width(argv[i])]
           [] argv[i].is = "-c" /\ i < Len(argv) /\ ~s.dashC ->
                [s EXCEPT !.dashC = TRUE, !.text = argv[i + 1].text, !.next = i + 2]
           [] OTHER -> [s EXCEPT !.direct = Append(@, argv[i])]

Scan(argv) ==
    LET upTo[n \in 0 .. Len(argv)] ==
            IF n = 0 THEN Unread ELSE ScanToken(argv, upTo[n - 1], n)
    IN upTo[Len(argv)]

\* Mutant: the trusted owner goes behind what the client wrote.
SpliceBehind(owner, verb) ==
    IF owner = NoOwner THEN verb ELSE verb \o <<OwnerFlag, Word(owner)>>

Splice(owner, verb) ==
    IF owner = NoOwner THEN verb ELSE <<OwnerFlag, Word(owner)>> \o verb

\* resolve_argv, with SSH_ORIGINAL_COMMAND (given is FALSE when it is not
\* set).  An empty command is an error, told by an empty result.
ResolveArgv(argv, given, original) ==
    LET scan == Scan(argv)
        verb == IF given THEN original ELSE IF scan.dashC THEN scan.text ELSE scan.direct
        owner == IF scan.owner = NoOwner /\ given /\ scan.dashC
                 THEN OwnerFromArgs(scan.text).owner ELSE scan.owner
    IN IF verb = NoText THEN NoText ELSE Splice(owner, verb)

ConfigOnly == {"images"}
ReadOnly == {"ls", "show", "health", "history", "stats"}
Privileged == {"create", "destroy", "extend", "ack"}
Verbs == ConfigOnly \cup ReadOnly \cup Privileged

\* clap takes a verb first, and no owner after it.
Parses(argv) ==
    /\ argv # NoText
    /\ argv[1].is = "word" /\ argv[1].name \in Verbs
    /\ \A i \in DOMAIN argv : argv[i].is \notin {"--owner", "--owner="}

\* run, up to the verb: what it is and for whom; NoVerb when it ends before.
\* fallback is the owner that the key's fingerprint tells.
NoVerb == "no verb"

Dispatched(argv, given, original, fallback, root) ==
    LET parsed == OwnerFromArgs(ResolveArgv(argv, given, original))
        verb == IF Parses(parsed.rest) THEN parsed.rest[1].name ELSE NoVerb
        owner == IF parsed.owner = NoOwner THEN fallback ELSE parsed.owner
    IN CASE verb \in Privileged ->
              IF root \/ owner = NoOwner THEN [verb |-> NoVerb, owner |-> NoOwner]
                                         ELSE [verb |-> verb, owner |-> owner]
         [] verb \in ConfigOnly -> [verb |-> verb, owner |-> NoOwner]
         [] OTHER -> [verb |-> verb, owner |-> IF verb = NoVerb THEN NoOwner ELSE owner]

=============================================================================
