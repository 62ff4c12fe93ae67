---------------------------- MODULE AccessProofs -----------------------------
(***************************************************************************)
(* For any number of processes, owners and keys: whatever file the last    *)
(* rename leaves, a key has one line and the lines written by hand are     *)
(* those of the beginning.  Each pending write has both properties, as     *)
(* compared with the file of now though it was computed from an older one: *)
(* no step ever changes the lines written by hand.                         *)
(*                                                                         *)
(* For any command lines of clients on top of it: a connection speaks for  *)
(* the owner of its line, and one whose line has no owner, and whose text  *)
(* names none, for nobody.                                                 *)
(***************************************************************************)
EXTENDS Access, SequenceTheorems, TLAPS

-----------------------------------------------------------------------------
\* The file of keys.

PendingSound ==
    \A p \in Process : process[p].at = "write" =>
        /\ OneLineEach(process[p].lines)
        /\ ByHand(process[p].lines) = ByHand(file)

OwnersInv == TypeOK /\ KeyHasOneOwner /\ PendingSound

LEMMA OwnersInit == Init => OwnersInv
<1> SUFFICES ASSUME Init PROVE OwnersInv
  OBVIOUS
<1>1. TypeOK  BY DEF Init, TypeOK, Idle
<1>2. KeyHasOneOwner  BY DEF Init, KeyHasOneOwner
<1>3. PendingSound  BY DEF Init, PendingSound, Idle
<1> QED  BY <1>1, <1>2, <1>3 DEF OwnersInv

\* A process that computes a sound file from a sound one.
LEMMA WritesSound ==
    ASSUME OwnersInv, NEW p \in Process, NEW lines \in SUBSET Line,
           OneLineEach(lines), ByHand(lines) = ByHand(file), Writes(p, lines)
    PROVE  OwnersInv' /\ ByHand(file') = ByHand(file)
<1>1. file' = file /\ process' = [process EXCEPT ![p] = [at |-> "write", lines |-> lines]]
  BY DEF Writes
<1>2. TypeOK'
  BY <1>1 DEF OwnersInv, TypeOK
<1>3. KeyHasOneOwner'
  BY <1>1 DEF OwnersInv, KeyHasOneOwner, OneLineEach
<1>4. PendingSound'
  BY <1>1 DEF OwnersInv, TypeOK, PendingSound
<1> QED  BY <1>1, <1>2, <1>3, <1>4 DEF OwnersInv

LEMMA AddOwnerStep ==
    ASSUME OwnersInv, NEW p \in Process, NEW owner \in Owner, NEW key \in Key,
           NEW mention \in Mention, AddOwner(p, owner, key, mention)
    PROVE  OwnersInv' /\ ByHand(file') = ByHand(file)
<1> DEFINE line == Managed(owner, key, mention)
           lines == file \cup {line}
<1>1. line \in Line /\ line.key = key /\ line.owner # NoOwner
  BY OwnerKeysAssumption DEF Managed, Line
<1>2. lines \in SUBSET Line
  BY <1>1 DEF OwnersInv, TypeOK
<1>3. \A l \in file : l.key # key
  BY DEF AddOwner
<1>4. Writes(p, lines)
  BY DEF AddOwner
<1> HIDE DEF line
<1>5. OneLineEach(lines)
  BY <1>1, <1>3 DEF OwnersInv, KeyHasOneOwner, OneLineEach
<1>6. ByHand(lines) = ByHand(file)
  BY <1>1 DEF ByHand
<1> HIDE DEF lines
<1> QED  BY <1>2, <1>4, <1>5, <1>6, WritesSound

LEMMA RemoveOwnerStep ==
    ASSUME OwnersInv, NEW p \in Process, NEW owner \in Owner, RemoveOwner(p, owner)
    PROVE  OwnersInv' /\ ByHand(file') = ByHand(file)
<1> DEFINE kept == {l \in file : ParsedOwner(l) # owner}
<1>1. kept \in SUBSET Line
  BY DEF OwnersInv, TypeOK
<1>2. Writes(p, kept)
  BY DEF RemoveOwner
<1>3. OneLineEach(kept)
  BY DEF OwnersInv, KeyHasOneOwner, OneLineEach
<1>4. \A l \in file : l.owner = NoOwner => ParsedOwner(l) # owner
  BY OwnerKeysAssumption DEF ParsedOwner
<1>5. ByHand(kept) = ByHand(file)
  BY <1>4 DEF ByHand
<1> HIDE DEF kept
<1> QED  BY <1>1, <1>2, <1>3, <1>5, WritesSound

LEMMA EndStep ==
    ASSUME OwnersInv, NEW p \in Process, Write(p) \/ Fail(p)
    PROVE  OwnersInv' /\ ByHand(file') = ByHand(file)
<1> USE DEF OwnersInv, TypeOK
<1>1. /\ process[p].at = "write"
      /\ process' = [process EXCEPT ![p] = Idle]
      /\ file' = process[p].lines \/ file' = file
  BY DEF Write, Fail
<1>2. ByHand(file') = ByHand(file) /\ OneLineEach(file')
  BY <1>1 DEF PendingSound, KeyHasOneOwner
<1>3. TypeOK'
  BY <1>1 DEF Idle
<1>4. PendingSound'
  BY <1>1, <1>2 DEF PendingSound, Idle
<1> QED  BY <1>2, <1>3, <1>4 DEF KeyHasOneOwner

LEMMA OwnersStep ==
    ASSUME OwnersInv, Next
    PROVE  OwnersInv' /\ ByHand(file') = ByHand(file)
BY AddOwnerStep, RemoveOwnerStep, EndStep DEF Next, ProcessStep

\* The invariant holds of every behaviour.
THEOREM OwnersInvariant == Spec => []OwnersInv
<1>1. OwnersInv /\ [Next]_vars => OwnersInv'
  <2>1. OwnersInv /\ UNCHANGED vars => OwnersInv'
    BY DEF vars, OwnersInv, TypeOK, KeyHasOneOwner, PendingSound
  <2> QED  BY <2>1, OwnersStep
<1> QED  BY <1>1, OwnersInit, PTL DEF Spec

\* The types of both variables.
THEOREM OwnerKeysTypes == Spec => []TypeOK
<1>1. OwnersInv => TypeOK  BY DEF OwnersInv
<1> QED  BY <1>1, OwnersInvariant, PTL

\* No two lines of the file have the same key, so none has two owners.
THEOREM OneOwnerPerKey == Spec => []KeyHasOneOwner
<1>1. OwnersInv => KeyHasOneOwner  BY DEF OwnersInv
<1> QED  BY <1>1, OwnersInvariant, PTL

\* The lines written by hand never change.
THEOREM AdministratorsLinesKept == Spec => HandwrittenKept
<1>1. OwnersInv /\ [Next]_vars => [ByHand(file') = ByHand(file)]_vars
  BY OwnersStep
<1> QED  BY <1>1, OwnersInvariant, PTL DEF Spec, HandwrittenKept

-----------------------------------------------------------------------------
\* Command lines.

\* One pass over two tokens.
LEMMA ScanOfTwo ==
    ASSUME NEW argv, Len(argv) = 2
    PROVE  CL!Scan(argv) = CL!ScanToken(argv, CL!ScanToken(argv, CL!Unread, 1), 2)
<1> DEFINE once == CL!ScanToken(argv, CL!Unread, 1)
           twice == CL!ScanToken(argv, once, 2)
           scan == [n \in 0 .. 2 |-> IF n = 0 THEN CL!Unread ELSE IF n = 1 THEN once ELSE twice]
           Further(f) == [n \in 0 .. Len(argv) |->
                             IF n = 0 THEN CL!Unread ELSE CL!ScanToken(argv, f[n - 1], n)]
           upTo == CHOOSE f : f = Further(f)
<1>1. scan = Further(scan)
  OBVIOUS
<1> HIDE DEF scan
<1>2. upTo = Further(upTo)
  BY <1>1
<1>3. CL!Scan(argv) = upTo[Len(argv)]
  BY DEF CL!Scan
<1> HIDE DEF upTo
<1>4. upTo[0] = CL!Unread
  BY <1>2
<1>5. upTo[1] = once
  BY <1>2, <1>4
<1>6. upTo[2] = twice
  BY <1>2, <1>5
<1> QED  BY <1>3, <1>6

\* What an administrator's shell is started with: -c and a text.
LEMMA ScanOfDashC ==
    ASSUME NEW text
    PROVE  LET scan == CL!Scan(<<CL!DashC, CL!Text(text)>>) IN
           scan.owner = CL!NoOwner /\ scan.dashC /\ scan.text = text
<1> DEFINE argv == <<CL!DashC, CL!Text(text)>>
           once == CL!ScanToken(argv, CL!Unread, 1)
<1>1. /\ Len(argv) = 2 /\ argv[1].is = "-c" /\ argv[2].text = text
      /\ 1 \notin CL!OwnerPlaces(argv)
  BY DEF CL!DashC, CL!Text, CL!Token, CL!OwnerPlaces
<1> HIDE DEF argv
<1>2. CL!Unread.next = 1 /\ ~CL!Unread.dashC /\ CL!Unread.owner = CL!NoOwner
      /\ DOMAIN CL!Unread = {"owner", "dashC", "text", "direct", "next"}
  BY DEF CL!Unread
<1>3. once = [CL!Unread EXCEPT !.dashC = TRUE, !.text = argv[1 + 1].text, !.next = 1 + 2]
  BY <1>1, <1>2 DEF CL!ScanToken
<1>4. once.owner = CL!NoOwner /\ once.dashC /\ once.text = text /\ once.next = 3
  <2>1. once.owner = CL!NoOwner /\ once.dashC = TRUE /\ once.text = argv[1 + 1].text
        /\ once.next = 1 + 2
    BY <1>2, <1>3, Zenon
  <2> QED  BY <1>1, <2>1
<1> HIDE DEF once
<1>5. CL!ScanToken(argv, once, 2) = once
  BY <1>4 DEF CL!ScanToken
<1>6. CL!Scan(argv) = once
  BY <1>1, <1>5, ScanOfTwo DEF once
<1> QED  BY <1>4, <1>6 DEF argv

\* What a forced command starts another shell's seadog with: the owner.
LEMMA ScanOfOwner ==
    ASSUME NEW owner
    PROVE  LET scan == CL!Scan(<<CL!OwnerFlag, CL!Word(owner)>>) IN
           scan.owner = owner /\ ~scan.dashC /\ scan.direct = CL!NoText
<1> DEFINE argv == <<CL!OwnerFlag, CL!Word(owner)>>
           once == CL!ScanToken(argv, CL!Unread, 1)
<1>1. /\ Len(argv) = 2 /\ argv[1].is = "--owner" /\ argv[2].name = owner
      /\ 1 \in CL!OwnerPlaces(argv) /\ CL!OwnerAt(argv, 1) = owner /\ CL!Width(argv[1]) = 2
  BY DEF CL!OwnerFlag, CL!Word, CL!Token, CL!OwnerPlaces, CL!OwnerAt, CL!Width
<1> HIDE DEF argv
<1>2. /\ CL!Unread.next = 1 /\ ~CL!Unread.dashC /\ CL!Unread.owner = CL!NoOwner
      /\ CL!Unread.direct = CL!NoText
      /\ DOMAIN CL!Unread = {"owner", "dashC", "text", "direct", "next"}
  BY DEF CL!Unread
<1>3. once = [CL!Unread EXCEPT !.owner = CL!OwnerAt(argv, 1), !.next = 1 + CL!Width(argv[1])]
  BY <1>1, <1>2 DEF CL!ScanToken
<1>4. once.owner = owner /\ ~once.dashC /\ once.direct = CL!NoText /\ once.next = 3
  <2>1. once.owner = CL!OwnerAt(argv, 1) /\ once.dashC = CL!Unread.dashC
        /\ once.direct = CL!Unread.direct /\ once.next = 1 + CL!Width(argv[1])
    BY <1>2, <1>3, Zenon
  <2> QED  BY <1>1, <1>2, <2>1
<1> HIDE DEF once
<1>5. CL!ScanToken(argv, once, 2) = once
  BY <1>4 DEF CL!ScanToken
<1>6. CL!Scan(argv) = once
  BY <1>1, <1>5, ScanOfTwo DEF once
<1> QED  BY <1>4, <1>6 DEF argv

\* The first owner of a line is the one in front.
LEMMA SplicedOwner ==
    ASSUME NEW owner, owner # CL!NoOwner, NEW S, NEW verb \in Seq(S)
    PROVE  CL!OwnerFromArgs(CL!Splice(owner, verb)).owner = owner
<1> DEFINE front == <<CL!OwnerFlag, CL!Word(owner)>>
           argv == front \o verb
<1>1. /\ front \in Seq({CL!OwnerFlag, CL!Word(owner)}) /\ Len(front) = 2
      /\ front[1].is = "--owner" /\ front[2].name = owner
  BY DEF CL!OwnerFlag, CL!Word, CL!Token
<1>2. CL!Splice(owner, verb) = argv
  BY DEF CL!Splice
<1> HIDE DEF front
<1> DEFINE T == S \cup {CL!OwnerFlag, CL!Word(owner)}
<1>3. front \in Seq(T) /\ verb \in Seq(T)
  BY <1>1
<1> HIDE DEF T
<1>4. /\ Len(argv) >= 2 /\ DOMAIN argv = 1 .. Len(argv) /\ Len(argv) \in Nat
      /\ argv[1] = front[1] /\ argv[2] = front[2]
  <2>1. /\ argv \in Seq(T) /\ Len(argv) = Len(front) + Len(verb)
        /\ \A i \in 1 .. Len(front) : argv[i] = front[i]
    BY <1>3, ConcatProperties
  <2>2. Len(verb) \in Nat
    BY <1>3
  <2> HIDE DEF argv
  <2> QED  BY <1>1, <2>1, <2>2
<1> HIDE DEF argv
<1>5. 1 \in CL!OwnerPlaces(argv) /\ CL!OwnerPlaces(argv) \subseteq 1 .. Len(argv)
  BY <1>1, <1>4 DEF CL!OwnerPlaces
<1>6. CL!Min(CL!OwnerPlaces(argv)) = 1
  BY <1>4, <1>5 DEF CL!Min
<1>7. CL!OwnerAt(argv, 1) = owner
  BY <1>1, <1>4 DEF CL!OwnerAt
<1>8. CL!OwnerFromArgs(argv).owner = CL!OwnerAt(argv, CL!Min(CL!OwnerPlaces(argv)))
  BY <1>5 DEF CL!OwnerFromArgs
<1> QED  BY <1>2, <1>6, <1>7, <1>8

\* The forced command of a line, as seadog reads it itself.
LEMMA ForcedOwner ==
    ASSUME NEW owner
    PROVE  CL!OwnerFromArgs(<<CL!Word("seadog"), CL!OwnerFlag, CL!Word(owner)>>).owner = owner
<1> DEFINE argv == <<CL!Word("seadog"), CL!OwnerFlag, CL!Word(owner)>>
<1>1. /\ DOMAIN argv = 1 .. 3 /\ Len(argv) = 3
      /\ argv[1].is = "word" /\ argv[2].is = "--owner" /\ argv[3].is = "word"
      /\ argv[3].name = owner
  BY DEF CL!OwnerFlag, CL!Word, CL!Token
<1> HIDE DEF argv
<1>2. CL!OwnerPlaces(argv) = {2}
  BY <1>1 DEF CL!OwnerPlaces
<1>3. CL!Min(CL!OwnerPlaces(argv)) = 2
  BY <1>2 DEF CL!Min
<1>4. CL!OwnerAt(argv, 2) = owner
  BY <1>1 DEF CL!OwnerAt
<1>5. CL!OwnerFromArgs(argv).owner = CL!OwnerAt(argv, CL!Min(CL!OwnerPlaces(argv)))
  BY <1>2 DEF CL!OwnerFromArgs
<1> QED  BY <1>3, <1>4, <1>5 DEF argv

\* Nothing is read from an empty line.
LEMMA NothingParses ==
    /\ ~CL!Parses(CL!OwnerFromArgs(CL!NoText).rest)
    /\ CL!OwnerFromArgs(CL!NoText).owner = CL!NoOwner
<1>1. CL!OwnerPlaces(CL!NoText) = {}
  BY DEF CL!OwnerPlaces, CL!NoText
<1>2. CL!OwnerFromArgs(CL!NoText).rest = CL!NoText
      /\ CL!OwnerFromArgs(CL!NoText).owner = CL!NoOwner
  BY <1>1 DEF CL!OwnerFromArgs
<1> QED  BY <1>2 DEF CL!Parses

-----------------------------------------------------------------------------
\* What a connection runs.

\* Behind a forced command the verb runs for the owner of the line.
LEMMA ForcedOutcome ==
    ASSUME NEW start \in {"seadog", "bash"}, NEW line \in Owner, NEW text \in Texts, NEW fallback,
           Outcome(start, line, text, fallback).verb \in CL!ReadOnly \cup CL!Privileged
    PROVE  Outcome(start, line, text, fallback).owner = line
<1> DEFINE given == start # "plain" /\ text # <<>>
           argv == Started(start, line, text)
           resolved == CL!ResolveArgv(argv, given, text)
           parsed == CL!OwnerFromArgs(resolved)
<1>1. line # CL!NoOwner
  BY OwnerKeysAssumption DEF NoOwner, CL!NoOwner
<1>2. text \in Seq({text[i] : i \in DOMAIN text})
  BY TextsAssumption
<1>3. resolved = CL!NoText \/ parsed.owner = line
  <2>1. CASE given
    <3>1. resolved = CL!Splice(line, text)
      <4>1. CASE start = "bash"
        <5>1. argv = <<CL!OwnerFlag, CL!Word(line)>>
          BY <4>1 DEF Started
        <5> QED  BY <1>1, <2>1, <5>1, ScanOfOwner DEF CL!ResolveArgv, CL!NoText
      <4>2. CASE start = "seadog"
        <5> DEFINE forced == <<CL!Word("seadog"), CL!OwnerFlag, CL!Word(line)>>
        <5>1. argv = <<CL!DashC, CL!Text(forced)>>
          BY <4>2 DEF Started
        <5>2. CL!OwnerFromArgs(forced).owner = line
          BY ForcedOwner
        <5> HIDE DEF forced
        <5> QED  BY <1>1, <2>1, <5>1, <5>2, ScanOfDashC DEF CL!ResolveArgv, CL!NoText
      <4> QED  BY <4>1, <4>2
    <3> QED  BY <1>1, <1>2, <3>1, SplicedOwner
  <2>2. CASE ~given /\ start = "bash"
    <3>1. argv = <<CL!OwnerFlag, CL!Word(line)>>
      BY <2>2 DEF Started
    <3>2. resolved = CL!NoText
      BY <2>2, <3>1, ScanOfOwner DEF CL!ResolveArgv
    <3> QED  BY <3>2
  <2>3. CASE ~given /\ start = "seadog"
    <3> DEFINE forced == <<CL!Word("seadog"), CL!OwnerFlag, CL!Word(line)>>
    <3>1. argv = <<CL!DashC, CL!Text(forced)>>
      BY <2>3 DEF Started
    <3>2. CL!OwnerFromArgs(forced).owner = line
      BY ForcedOwner
    <3> HIDE DEF forced
    <3>3. resolved = CL!NoText \/ resolved = forced
      BY <2>3, <3>1, ScanOfDashC DEF CL!ResolveArgv, CL!Splice
    <3> QED  BY <3>2, <3>3
  <2> QED  BY <2>1, <2>2, <2>3
<1>4. Outcome(start, line, text, fallback) = CL!Dispatched(argv, given, text, fallback, FALSE)
  BY DEF Outcome
<1> HIDE DEF argv, given
<1>5. resolved # CL!NoText
  <2>1. CL!NoVerb \notin CL!ReadOnly \cup CL!Privileged
    BY DEF CL!NoVerb, CL!ReadOnly, CL!Privileged
  <2>2. CASE resolved = CL!NoText
    <3>1. ~CL!Parses(parsed.rest)
      BY <2>2, NothingParses
    <3>2. CL!Dispatched(argv, given, text, fallback, FALSE).verb = CL!NoVerb
      BY <2>1, <3>1 DEF CL!Dispatched, CL!NoVerb, CL!ConfigOnly
    <3> QED  BY <1>4, <2>1, <3>2
  <2> QED  BY <2>2
<1>6. parsed.owner = line
  BY <1>3, <1>5
<1>7. CL!Dispatched(argv, given, text, fallback, FALSE).verb \in CL!ReadOnly \cup CL!Privileged
  BY <1>4
<1>8. CL!Dispatched(argv, given, text, fallback, FALSE).owner = line
  BY <1>1, <1>6, <1>7
  DEF CL!Dispatched, CL!NoVerb, CL!ReadOnly, CL!Privileged, CL!ConfigOnly
<1> QED  BY <1>4, <1>8

\* Without an owner anywhere there is no privileged verb.
LEMMA PlainOutcome ==
    ASSUME NEW line, NEW text, ~NamesOwner(text)
    PROVE  Outcome("plain", line, text, NoOwner).verb \notin CL!Privileged
<1> DEFINE argv == Started("plain", line, text)
           resolved == CL!ResolveArgv(argv, FALSE, text)
           parsed == CL!OwnerFromArgs(resolved)
<1>1. argv = <<CL!DashC, CL!Text(text)>>
  BY DEF Started
<1>2. resolved = CL!NoText \/ resolved = text
  BY <1>1, ScanOfDashC DEF CL!ResolveArgv, CL!Splice
<1>3. CL!OwnerPlaces(text) = {}
  BY DEF NamesOwner, CL!OwnerPlaces
<1>4. CL!OwnerFromArgs(text).owner = CL!NoOwner
  BY <1>3 DEF CL!OwnerFromArgs
<1>5. parsed.owner = CL!NoOwner
  BY <1>2, <1>4, NothingParses
<1>6. Outcome("plain", line, text, NoOwner) = CL!Dispatched(argv, FALSE, text, NoOwner, FALSE)
  BY DEF Outcome
<1> HIDE DEF argv
<1>7. CL!Dispatched(argv, FALSE, text, NoOwner, FALSE).verb \notin CL!Privileged
  BY <1>5
  DEF CL!Dispatched, CL!NoVerb, CL!Privileged, CL!ConfigOnly, CL!NoOwner, NoOwner
<1> QED  BY <1>6, <1>7

-----------------------------------------------------------------------------
\* The connection.

\* A connection whose line has no owner still has that line: nothing takes a
\* line away that was written by hand.
SessionInv ==
    /\ session.at # "out" =>
          IF session.line = NoOwner
          THEN /\ session.start = "plain"
               /\ \E l \in file : l.key = session.key /\ l.owner = NoOwner
          ELSE session.line \in Owner /\ session.start \in {"seadog", "bash"}
    /\ session.at # "out" => session.key \in Key
    /\ DOMAIN session = DOMAIN NoSession
    /\ OwnerIsOfLine /\ PlainKeyHasNoOwner

AccessInv == OwnersInv /\ SessionInv

LEMMA AccessInitial == AccessInit => AccessInv
BY OwnersInit DEF AccessInit, AccessInv, SessionInv, NoSession, OwnerIsOfLine, PlainKeyHasNoOwner

\* Whose key has a line written by hand has no other line.
LEMMA NothingToFallBackOn ==
    ASSUME OwnersInv, NEW key \in Key, NEW l \in file, l.key = key, l.owner = NoOwner
    PROVE  Fallback(file, key) = NoOwner
<1>1. \A m \in file : BodyOfLine(m) = key => m = l
  <2> SUFFICES ASSUME NEW m \in file, BodyOfLine(m) = key PROVE m = l
    OBVIOUS
  <2>1. m.key = key
    BY OwnerKeysAssumption DEF BodyOfLine
  <2> QED  BY <2>1 DEF OwnersInv, KeyHasOneOwner, OneLineEach
<1> QED  BY <1>1 DEF Fallback

LEMMA LoginStep ==
    ASSUME AccessInv, NEW key \in Key, Login(key)
    PROVE  AccessInv'
<1>1. PICK l \in file, start \in {"plain", "seadog", "bash"} :
        /\ l.key = key
        /\ IF l.owner = NoOwner THEN start = "plain" ELSE start \in {"seadog", "bash"}
        /\ session' = [NoSession EXCEPT !.at = "in", !.key = key, !.line = l.owner,
                                        !.start = start]
  BY DEF Login
<1>2. /\ session'.at = "in" /\ session'.key = key /\ session'.line = l.owner
      /\ session'.start = start
  BY <1>1 DEF NoSession
<1>3. UNCHANGED vars
  BY DEF Login
<1>4. l.owner \in Owner \cup {NoOwner}
  BY DEF AccessInv, OwnersInv, TypeOK, Line
<1>5. OwnersInv'
  BY <1>3 DEF AccessInv, vars, OwnersInv, TypeOK, KeyHasOneOwner, PendingSound
<1>6. SessionInv'
  BY <1>1, <1>2, <1>3, <1>4 DEF SessionInv, vars, OwnerIsOfLine, PlainKeyHasNoOwner
<1> QED  BY <1>5, <1>6 DEF AccessInv

LEMMA RunStep == ASSUME AccessInv, Run PROVE AccessInv'
<1>1. PICK fallback \in {NoOwner, Fallback(file, session.key)} :
        \E o \in Outcomes[session.start][session.line][fallback] :
          session' = [session EXCEPT !.at = "ran", !.verb = o.out.verb,
                                     !.owner = o.out.owner, !.named = o.named]
  BY DEF Run
<1>2. /\ session.at = "in" /\ UNCHANGED vars /\ OwnersInv /\ SessionInv /\ session.key \in Key
  BY DEF Run, AccessInv, SessionInv
<1>3. fallback \in Owner \cup {NoOwner}
  <2>1. \A l \in file : l.owner \in Owner \cup {NoOwner}
    BY <1>2 DEF OwnersInv, TypeOK, Line
  <2> QED  BY <2>1 DEF Fallback
<1>4. session.start \in {"plain", "bash", "seadog"} /\ session.line \in Owner \cup {NoOwner}
  BY <1>2 DEF SessionInv
<1>5. PICK o \in Outcomes[session.start][session.line][fallback] :
        session' = [session EXCEPT !.at = "ran", !.verb = o.out.verb,
                                   !.owner = o.out.owner, !.named = o.named]
  BY <1>1
<1> DEFINE Result(text) == Outcome(session.start, session.line, text, fallback)
<1>11. Outcomes[session.start][session.line][fallback]
         = {[out |-> Result(text), named |-> NamesOwner(text)] : text \in Texts}
  BY <1>3, <1>4 DEF Outcomes
<1>12. PICK text \in Texts : o = [out |-> Result(text), named |-> NamesOwner(text)]
  BY <1>5, <1>11
<1> DEFINE outcome == Outcome(session.start, session.line, text, fallback)
<1>13. o.out = outcome /\ o.named = NamesOwner(text)
  <2> HIDE DEF Result
  <2>1. o.out = Result(text) /\ o.named = NamesOwner(text)
    BY <1>12
  <2> QED  BY <2>1 DEF Result
<1> HIDE DEF Result
<1>6. /\ session'.at = "ran" /\ session'.key = session.key /\ session'.line = session.line
      /\ session'.start = session.start /\ session'.verb = outcome.verb
      /\ session'.owner = outcome.owner /\ session'.named = NamesOwner(text)
      /\ DOMAIN session' = DOMAIN session
  BY <1>5, <1>13
<1> HIDE DEF outcome
<1>7. OwnerIsOfLine'
  BY <1>2, <1>6, ForcedOutcome DEF OwnerIsOfLine, SessionInv, outcome
<1>8. PlainKeyHasNoOwner'
  <2> SUFFICES ASSUME session.line = NoOwner, ~NamesOwner(text)
               PROVE  outcome.verb \notin CL!Privileged
    BY <1>6 DEF PlainKeyHasNoOwner
  <2>1. session.start = "plain" /\ fallback = NoOwner
    BY <1>2, NothingToFallBackOn DEF SessionInv
  <2> QED  BY <2>1, PlainOutcome DEF outcome
<1>9. SessionInv'
  BY <1>2, <1>6, <1>7, <1>8 DEF SessionInv, vars
<1>10. OwnersInv'
  BY <1>2 DEF vars, OwnersInv, TypeOK, KeyHasOneOwner, PendingSound
<1> QED  BY <1>9, <1>10 DEF AccessInv

LEMMA LogoutStep == ASSUME AccessInv, Logout PROVE AccessInv'
BY DEF Logout, AccessInv, SessionInv, NoSession, OwnerIsOfLine, PlainKeyHasNoOwner, vars,
       OwnersInv, TypeOK, KeyHasOneOwner, PendingSound

\* The files change under a connection, but not its line.
LEMMA FileStep ==
    ASSUME AccessInv, Next, UNCHANGED session
    PROVE  AccessInv'
<1>1. OwnersInv' /\ ByHand(file') = ByHand(file)
  BY OwnersStep DEF AccessInv
<1>2. \A l \in file : l.owner = NoOwner => l \in file'
  BY <1>1 DEF ByHand
<1>3. SessionInv'
  BY <1>2 DEF AccessInv, SessionInv, OwnerIsOfLine, PlainKeyHasNoOwner
<1> QED  BY <1>1, <1>3 DEF AccessInv

\* The invariant of the file and the connection.
THEOREM AccessInvariant == AccessSpec => []AccessInv
<1>1. AccessInv /\ UNCHANGED accessVars => AccessInv'
  BY DEF accessVars, AccessInv, SessionInv, OwnerIsOfLine, PlainKeyHasNoOwner,
         OwnersInv, TypeOK, KeyHasOneOwner, PendingSound
<1>2. AccessInv /\ [AccessNext]_accessVars => AccessInv'
  BY <1>1, LoginStep, RunStep, LogoutStep, FileStep DEF AccessNext
<1> QED  BY <1>2, AccessInitial, PTL DEF AccessSpec

\* Behind a forced command a verb runs for the owner that the line named.
THEOREM OwnersAreOfLines == AccessSpec => []OwnerIsOfLine
<1>1. AccessInv => OwnerIsOfLine
  BY DEF AccessInv, SessionInv
<1> QED  BY <1>1, AccessInvariant, PTL

\* A key written by hand runs no privileged verb unless its text names an owner.
THEOREM PlainKeysHaveNoOwner == AccessSpec => []PlainKeyHasNoOwner
<1>1. AccessInv => PlainKeyHasNoOwner
  BY DEF AccessInv, SessionInv
<1> QED  BY <1>1, AccessInvariant, PTL

\* With a connection beside it the file is still that of OwnerKeys.
THEOREM AccessOfKeys == AccessSpec => Spec
<1>1. AccessInit => Init
  BY DEF AccessInit
<1>2. [AccessNext]_accessVars => [Next]_vars
  BY DEF AccessNext, accessVars, vars, Login, Run, Logout
<1> QED  BY <1>1, <1>2, PTL DEF AccessSpec, Spec

=============================================================================
